---- MODULE Spec2Model ----
(***************************************************************************)
(* Multi-material / multi-environment cell composition engine              *)
(* (arcane/materials/AllEnvData.cc).                                       *)
(*                                                                         *)
(* The engine keeps, for a mesh partition, the per-cell environment and    *)
(* material counts (the ledger), one variable indexer per material and     *)
(* per multi-material environment (cell -> MatVarIndex, pure or partial),  *)
(* and the enumeration tree AllEnvCell -> EnvCell -> MatCell.              *)
(***************************************************************************)
EXTENDS Integers, Sequences, FiniteSets, TLC

(***************************************************************************)
(* Bounds of the model.                                                    *)
(***************************************************************************)
MaxPos == 1

\* The updates a check-mode run asks for.
MaxUpdates == 2

\* The mesh of the model has two cells; a variable holds values 0 or 1.
Cells == {1, 2}
Values == {0, 1}

(***************************************************************************)
(* The material registry: two environments, E1 with the materials A and B  *)
(* and the mono-material E2 with M.  A mono-material environment shares    *)
(* the cell group and the variable indexer of its only material.           *)
(***************************************************************************)
trueEnvironments == <<"E1", "E2">>
trueMaterials == [E1 |-> <<"A", "B">>, E2 |-> <<"M">>]
allMaterials == <<"A", "B", "M">>
trueEnvironment == [A |-> "E1", B |-> "E1", M |-> "E2"]
matIndexer == [A |-> 0, B |-> 1, M |-> 2]
envIndexer == [E1 |-> 3, E2 |-> 2]

Envs == {trueEnvironments[i] : i \in DOMAIN trueEnvironments}
Mats == {allMaterials[i] : i \in DOMAIN allMaterials}
Indexers == {matIndexer[m] : m \in Mats} \cup {envIndexer[e] : e \in Envs}
nbMaterial(e) == Len(trueMaterials[e])
MultiEnvs == {e \in Envs : nbMaterial(e) # 1}

(***************************************************************************)
(* Sequence helpers.                                                       *)
(***************************************************************************)
Range(q) == {q[i] : i \in DOMAIN q}

SetMax(S) == CHOOSE x \in S : \A y \in S : y <= x

SetMin(S) == CHOOSE x \in S : \A y \in S : x <= y

RECURSIVE SortedSeq(_)
SortedSeq(S) == IF S = {} THEN <<>> ELSE <<SetMin(S)>> \o SortedSeq(S \ {SetMin(S)})

RECURSIVE SumOver(_, _)
SumOver(f, S) == IF S = {} THEN 0 ELSE LET x == CHOOSE y \in S : TRUE IN f[x] + SumOver(f, S \ {x})

\* The arrays of distinct cell ids a Modification Operation can carry.
RECURSIVE DistinctSeqs(_)
DistinctSeqs(S) ==
  {<<>>} \cup UNION {{<<x>> \o q : q \in DistinctSeqs(S \ {x})} : x \in S}

IdArrays == DistinctSeqs(Cells) \ {<<>>}

(***************************************************************************)
(* MatVarIndex and the variable indexer.  An indexer is the list of its    *)
(* entries (m_local_ids[z], m_matvar_indexes[z]); a pure entry is          *)
(* MatVarIndex(0, lid), a partial one MatVarIndex(index + 1, position).    *)
(***************************************************************************)
PureEntry(lid) == [lid |-> lid, arr |-> 0, val |-> lid]

PartialEntry(lid, ixId, pos) == [lid |-> lid, arr |-> ixId + 1, val |-> pos]

IsPure(ent) == ent.arr = 0

localIds(ix) == [z \in DOMAIN ix |-> ix[z].lid]

IndexerCells(ix) == {ix[z].lid : z \in DOMAIN ix}

PureCells(ix) == {ix[z].lid : z \in {y \in DOMAIN ix : IsPure(ix[y])}}

PartialCells(ix) == {ix[z].lid : z \in {y \in DOMAIN ix : ~IsPure(ix[y])}}

PartialPositions(ix) == {ix[z].val : z \in {y \in DOMAIN ix : ~IsPure(ix[y])}}

EntryOf(ix, c) == ix[CHOOSE z \in DOMAIN ix : ix[z].lid = c]

maxIndexInMultipleArray(ix) == SetMax(PartialPositions(ix) \cup {-1})

\* ComponentItemListBuilder + endUpdate: the indexer is rebuilt from a cell
\* list, partial positions numbered from 0 in the order of the list.
RECURSIVE BuildEntries(_, _, _, _)
BuildEntries(ids, ixId, isPartial, next) ==
  IF ids = <<>> THEN <<>>
  ELSE IF isPartial[Head(ids)]
       THEN <<PartialEntry(Head(ids), ixId, next)>> \o BuildEntries(Tail(ids), ixId, isPartial, next + 1)
       ELSE <<PureEntry(Head(ids))>> \o BuildEntries(Tail(ids), ixId, isPartial, next)

endUpdate(ixId, ids, isPartial) == BuildEntries(ids, ixId, isPartial, 0)

\* endUpdateAdd: the new entries are appended, their partial positions
\* follow the greatest position in use.
endUpdateAdd(ix, ixId, ids, isPartial) ==
  ix \o BuildEntries(ids, ixId, isPartial, maxIndexInMultipleArray(ix) + 1)

\* endUpdateRemove: the list is scanned once; the last entry of the list is
\* moved into the slot of a removed entry and the scan goes on from that slot.
RECURSIVE RemoveFrom(_, _, _)
RemoveFrom(ix, z, removed) ==
  IF z > Len(ix) THEN ix
  ELSE IF ix[z].lid \in removed
       THEN RemoveFrom(SubSeq([ix EXCEPT ![z] = ix[Len(ix)]], 1, Len(ix) - 1), z, removed)
       ELSE RemoveFrom(ix, z + 1, removed)

endUpdateRemove(ix, removed) == RemoveFrom(ix, 1, removed)

\* transformCellsV2: pure entries of the flagged cells become partial (add
\* operation) or partial entries become pure (remove operation); returns the
\* indexer and the two arrays handed to the variables.
RECURSIVE TransformFrom(_, _, _, _, _, _)
TransformFrom(ix, z, ixId, cells_to_transform, is_add, acc) ==
  IF z > Len(ix) THEN acc
  ELSE LET ent == ix[z]
           hit == cells_to_transform[ent.lid] /\ (IsPure(ent) <=> is_add)
           pos == IF is_add THEN maxIndexInMultipleArray(acc.ix) + 1 ELSE ent.val
           new == IF is_add THEN PartialEntry(ent.lid, ixId, pos) ELSE PureEntry(ent.lid)
       IN IF hit
          THEN TransformFrom(ix, z + 1, ixId, cells_to_transform, is_add,
                 [ix |-> [acc.ix EXCEPT ![z] = new],
                  pure_local_ids |-> Append(acc.pure_local_ids, ent.lid),
                  partial_indexes |-> Append(acc.partial_indexes, pos)])
          ELSE TransformFrom(ix, z + 1, ixId, cells_to_transform, is_add, acc)

transformCellsV2(ix, ixId, cells_to_transform, is_add) ==
  TransformFrom(ix, 1, ixId, cells_to_transform, is_add,
                [ix |-> ix, pure_local_ids |-> <<>>, partial_indexes |-> <<>>])

(***************************************************************************)
(* The registered material variables (the Field Migration Hook).  A        *)
(* variable holds one global value per cell and, per indexer, one value    *)
(* per partial position.                                                   *)
(***************************************************************************)
\* MeshMaterialMng::visitVariables applies a functor to the variables in the
\* order of the registry.
visitVariables == <<"u", "v">>

FieldVars == Range(visitVariables)

Positions == 0..MaxPos

ZeroCells == [c \in Cells |-> 0]

\* What a step of an operation read from the ledger: the counts and the
\* flags cells_to_transform it derived from them (none for most steps).
NoRead == [nbEnv |-> ZeroCells, nbMat |-> ZeroCells, flags |-> [c \in Cells |-> FALSE]]

\* The record of one step of the operation in progress, in program order.
Event(kind, who, ixId, ids, pos, rd) ==
  [kind |-> kind, who |-> who, ix |-> ixId, ids |-> ids, pos |-> pos, rd |-> rd]

RECURSIVE CopyG2P(_, _, _, _)
CopyG2P(partial, global, ids, pos) ==
  IF ids = <<>> THEN partial
  ELSE CopyG2P([partial EXCEPT ![Head(pos)] = global[Head(ids)]], global, Tail(ids), Tail(pos))

RECURSIVE CopyP2G(_, _, _, _)
CopyP2G(global, partial, ids, pos) ==
  IF ids = <<>> THEN global
  ELSE CopyP2G([global EXCEPT ![Head(ids)] = partial[Head(pos)]], partial, Tail(ids), Tail(pos))

\* IMeshMaterialVariable::_copyGlobalToPartial on every variable.
copyGlobalToPartial(s, indexer_index, ids, pos) ==
  [s EXCEPT !.pval = [v \in FieldVars |->
                        [s.pval[v] EXCEPT ![indexer_index] = CopyG2P(@, s.gval[v], ids, pos)]]]

\* IMeshMaterialVariable::_copyPartialToGlobal on every variable.
copyPartialToGlobal(s, indexer_index, ids, pos) ==
  [s EXCEPT !.gval = [v \in FieldVars |-> CopyP2G(s.gval[v], s.pval[v][indexer_index], ids, pos)]]

HookKind(is_add_operation) ==
  IF is_add_operation THEN "copyGlobalToPartial" ELSE "copyPartialToGlobal"

\* Mutant: only the first variable of the registry is visited.
CopyFirstVariableOnly(s, pure_local_ids, partial_indexes, indexer_index, is_add_operation) ==
  IF pure_local_ids = <<>> THEN s
  ELSE LET t == IF is_add_operation
                THEN copyGlobalToPartial(s, indexer_index, pure_local_ids, partial_indexes)
                ELSE copyPartialToGlobal(s, indexer_index, pure_local_ids, partial_indexes)
       IN [t EXCEPT !.log = Append(@, Event(HookKind(is_add_operation), visitVariables[1],
                                            indexer_index, pure_local_ids, partial_indexes,
                                            NoRead))]

\* Mutant: the values go from global to partial whatever the operation.
CopyAlwaysGlobalToPartial(s, pure_local_ids, partial_indexes, indexer_index, is_add_operation) ==
  IF pure_local_ids = <<>> THEN s
  ELSE LET t == copyGlobalToPartial(s, indexer_index, pure_local_ids, partial_indexes)
       IN [t EXCEPT !.log = @ \o [i \in DOMAIN visitVariables |->
                                    Event("copyGlobalToPartial", visitVariables[i],
                                          indexer_index, pure_local_ids, partial_indexes, NoRead)]]

\* Mutant: the variables are visited even when no cell moved.
CopyEvenWhenEmpty(s, pure_local_ids, partial_indexes, indexer_index, is_add_operation) ==
  LET t == IF is_add_operation
           THEN copyGlobalToPartial(s, indexer_index, pure_local_ids, partial_indexes)
           ELSE copyPartialToGlobal(s, indexer_index, pure_local_ids, partial_indexes)
  IN [t EXCEPT !.log = @ \o [i \in DOMAIN visitVariables |->
                               Event(HookKind(is_add_operation), visitVariables[i],
                                     indexer_index, pure_local_ids, partial_indexes, NoRead)]]

_copyBetweenPartialsAndGlobals(s, pure_local_ids, partial_indexes, indexer_index, is_add_operation) ==
  IF pure_local_ids = <<>> THEN s
  ELSE LET t == IF is_add_operation
                THEN copyGlobalToPartial(s, indexer_index, pure_local_ids, partial_indexes)
                ELSE copyPartialToGlobal(s, indexer_index, pure_local_ids, partial_indexes)
       IN [t EXCEPT !.log = @ \o [i \in DOMAIN visitVariables |->
                                    Event(HookKind(is_add_operation), visitVariables[i],
                                          indexer_index, pure_local_ids, partial_indexes, NoRead)]]

(***************************************************************************)
(* The ledger.  The engine keeps m_nb_env_per_cell and, per environment,   *)
(* m_nb_mat_per_cell and totalNbCellMat; the ComponentConnectivityList     *)
(* keeps the same counts a second time.                                    *)
(***************************************************************************)
IncAt(f, ids, d) == [c \in DOMAIN f |-> IF c \in Range(ids) THEN f[c] + d ELSE f[c]]

addCellsToEnvironment(s, env_id, ids) ==
  [s EXCEPT !.cellNbEnvironment = IncAt(@, ids, 1),
            !.log = Append(@, Event("connEnv", env_id, -1, ids, <<>>, NoRead))]

removeCellsToEnvironment(s, env_id, ids) ==
  [s EXCEPT !.cellNbEnvironment = IncAt(@, ids, -1),
            !.log = Append(@, Event("connEnv", env_id, -1, ids, <<>>, NoRead))]

addCellsToMaterial(s, mat_id, ids) ==
  [s EXCEPT !.cellNbMaterial[trueEnvironment[mat_id]] = IncAt(@, ids, 1),
            !.log = Append(@, Event("connMat", mat_id, -1, ids, <<>>, NoRead))]

removeCellsToMaterial(s, mat_id, ids) ==
  [s EXCEPT !.cellNbMaterial[trueEnvironment[mat_id]] = IncAt(@, ids, -1),
            !.log = Append(@, Event("connMat", mat_id, -1, ids, <<>>, NoRead))]

\* MeshEnvironment::_addItemsToIndexer: a new entry takes the global index
\* only when the cell has one environment and the environment one material.
_addItemsToIndexer(s, env, ixId, local_ids) ==
  [s EXCEPT !.ix[ixId] =
     endUpdateAdd(@, ixId, local_ids,
                  [c \in Cells |-> s.nbEnv[c] > 1 \/ s.nbMat[env][c] > 1]),
            !.log = Append(@, Event("indexerAdd", env, ixId, local_ids, <<>>, NoRead))]

\* Mutant: the running total is raised twice for every added cell.
AddItemsCountingTwice(s, env, mat, local_ids, update_env_indexer) ==
  LET s1 == [s EXCEPT !.nbMat[env] = IncAt(@, local_ids, 1),
                      !.totalNbCellMat[env] = @ + 2 * Len(local_ids)]
      s2 == _addItemsToIndexer(s1, env, matIndexer[mat], local_ids)
  IN IF update_env_indexer THEN _addItemsToIndexer(s2, env, envIndexer[env], local_ids) ELSE s2

_addItemsToEnvironment(s, env, mat, local_ids, update_env_indexer) ==
  LET s1 == [s EXCEPT !.nbMat[env] = IncAt(@, local_ids, 1),
                      !.totalNbCellMat[env] = @ + Len(local_ids)]
      s2 == _addItemsToIndexer(s1, env, matIndexer[mat], local_ids)
  IN IF update_env_indexer THEN _addItemsToIndexer(s2, env, envIndexer[env], local_ids) ELSE s2

_removeItemsFromIndexer(s, who, ixId, local_ids) ==
  [s EXCEPT !.ix[ixId] = endUpdateRemove(@, Range(local_ids)),
            !.log = Append(@, Event("indexerRemove", who, ixId, local_ids, <<>>, NoRead))]

\* Mutant: the material counter of the cells is not decremented.
RemoveItemsKeepingCount(s, env, mat, local_ids, update_env_indexer) ==
  LET s2 == _removeItemsFromIndexer(s, env, matIndexer[mat], local_ids)
  IN IF update_env_indexer THEN _removeItemsFromIndexer(s2, env, envIndexer[env], local_ids) ELSE s2

_removeItemsFromEnvironment(s, env, mat, local_ids, update_env_indexer) ==
  LET s1 == [s EXCEPT !.nbMat[env] = IncAt(@, local_ids, -1),
                      !.totalNbCellMat[env] = @ - Len(local_ids)]
      s2 == _removeItemsFromIndexer(s1, env, matIndexer[mat], local_ids)
  IN IF update_env_indexer THEN _removeItemsFromIndexer(s2, env, envIndexer[env], local_ids) ELSE s2

(***************************************************************************)
(* AllEnvData::IncrementalOneMaterialModifier.                             *)
(***************************************************************************)
\* Mutant: every cell of the mesh is flagged.
CellsToTransformMatAll(s, mat, is_add) == [c \in Cells |-> TRUE]

\* Mutant: only the cells the indexer of the material holds are flagged.
CellsToTransformMatOfIndexer(s, mat, is_add) ==
  LET env_id == trueEnvironment[mat]
  IN [c \in Cells |->
        /\ c \in IndexerCells(s.ix[matIndexer[mat]])
        /\ IF is_add
           THEN s.nbEnv[c] > 1 \/ s.cellNbMaterial[env_id][c] > 1
           ELSE s.nbEnv[c] = 1 /\ s.cellNbMaterial[env_id][c] = 1]

\* Mutant: the material count of the environment is not looked at.
CellsToTransformMatFromEnvCountOnly(s, mat, is_add) ==
  [c \in Cells |-> IF is_add THEN s.nbEnv[c] > 1 ELSE s.nbEnv[c] = 1]

\* _computeCellsToTransform(mat): the flags of a material other than the
\* modified one, from m_nb_env_per_cell and the connectivity list.
_computeCellsToTransformMat(s, mat, is_add) ==
  LET env_id == trueEnvironment[mat]
  IN [c \in Cells |->
        IF is_add
        THEN s.nbEnv[c] > 1 \/ s.cellNbMaterial[env_id][c] > 1
        ELSE s.nbEnv[c] = 1 /\ s.cellNbMaterial[env_id][c] = 1]

\* Mutant: on an add operation no cell of an environment is flagged.
CellsToTransformEnvRemoveOnly(s, is_add) ==
  [c \in Cells |-> IF is_add THEN FALSE ELSE s.nbEnv[c] = 1]

\* Mutant: on a remove operation the cells left with one environment are
\* not flagged.
CellsToTransformEnvAddOnly(s, is_add) ==
  [c \in Cells |-> IF is_add THEN s.nbEnv[c] > 1 ELSE FALSE]

\* Mutant: every cell that has an environment is flagged.
CellsToTransformEnvAnyCount(s, is_add) == [c \in Cells |-> s.nbEnv[c] >= 1]

\* _computeCellsToTransform(): the flags of an environment.
_computeCellsToTransformEnv(s, is_add) ==
  [c \in Cells |-> IF is_add THEN s.nbEnv[c] > 1 ELSE s.nbEnv[c] = 1]

\* One pass of the loop body: transform one indexer, then copy the values.
TransformIndexer(s, kind, who, ixId, flags, nb_mat_read, is_add) ==
  LET r == transformCellsV2(s.ix[ixId], ixId, flags, is_add)
      s1 == [s EXCEPT !.ix[ixId] = r.ix,
                      !.log = Append(@, Event(kind, who, ixId, r.pure_local_ids,
                                              r.partial_indexes,
                                              [nbEnv |-> s.nbEnv, nbMat |-> nb_mat_read,
                                               flags |-> flags]))]
  IN _copyBetweenPartialsAndGlobals(s1, r.pure_local_ids, r.partial_indexes, ixId, is_add)

RECURSIVE SwitchMaterialsFrom(_, _, _, _)
SwitchMaterialsFrom(s, i, modified_mat, is_add) ==
  IF i > Len(allMaterials) THEN s
  ELSE LET mat == allMaterials[i]
       IN IF mat = modified_mat
          THEN SwitchMaterialsFrom(s, i + 1, modified_mat, is_add)
          ELSE SwitchMaterialsFrom(
                 TransformIndexer(s, "transformMat", mat, matIndexer[mat],
                                  _computeCellsToTransformMat(s, mat, is_add),
                                  s.cellNbMaterial[trueEnvironment[mat]], is_add),
                 i + 1, modified_mat, is_add)

\* Mutant: the modified material is scanned with the others.
SwitchMaterialsWithModified(s, modified_mat, is_add) ==
  SwitchMaterialsFrom(s, 1, "", is_add)

\* Mutant: the other materials are not scanned.
SwitchMaterialsSkipped(s, modified_mat, is_add) == s

_switchComponentItemsForMaterials(s, modified_mat, is_add) ==
  SwitchMaterialsFrom(s, 1, modified_mat, is_add)

RECURSIVE SwitchEnvironmentsFrom(_, _, _, _)
SwitchEnvironmentsFrom(s, i, modified_env, is_add) ==
  IF i > Len(trueEnvironments) THEN s
  ELSE LET env == trueEnvironments[i]
       IN IF env = modified_env
          THEN SwitchEnvironmentsFrom(s, i + 1, modified_env, is_add)
          ELSE SwitchEnvironmentsFrom(
                 TransformIndexer(s, "transformEnv", env, envIndexer[env],
                                  _computeCellsToTransformEnv(s, is_add),
                                  ZeroCells, is_add),
                 i + 1, modified_env, is_add)

\* Mutant: the environments are not scanned.
SwitchEnvironmentsSkipped(s, modified_env, is_add) == s

_switchComponentItemsForEnvironments(s, modified_env, is_add) ==
  SwitchEnvironmentsFrom(s, 1, modified_env, is_add)

\* The partition of the ids of an operation on a multi-material environment.
cells_unchanged_in_env(s, env, ids, is_add) ==
  SelectSeq(ids, LAMBDA lid : s.cellNbMaterial[env][lid] # (IF is_add THEN 0 ELSE 1))

cells_changed_in_env(s, env, ids, is_add) ==
  SelectSeq(ids, LAMBDA lid : s.cellNbMaterial[env][lid] = (IF is_add THEN 0 ELSE 1))

\* The scan stops with a fatal error at a cell whose two counters differ.
IncoherentNbMaterial(s, env, ids) ==
  \E i \in DOMAIN ids : s.cellNbMaterial[env][ids[i]] # s.nbMat[env][ids[i]]

groupAdd(s, kind, who, ids) ==
  [s EXCEPT !.log = Append(@, Event(kind, who, -1, ids, <<>>, NoRead))]

\* Lines 828-875: the cells in which the environment stays.
ApplyUnchanged(s, env, mat, unchanged, is_add) ==
  IF is_add
  THEN _addItemsToEnvironment(
         groupAdd([s EXCEPT !.matCells[mat] = @ \cup Range(unchanged)], "matGroup", mat, unchanged),
         env, mat, unchanged, FALSE)
  ELSE _removeItemsFromEnvironment(
         groupAdd([s EXCEPT !.matCells[mat] = @ \ Range(unchanged)], "matGroup", mat, unchanged),
         env, mat, unchanged, FALSE)

\* Mutant: the connectivity list counts the material only in the cells
\* where the environment comes or goes.
ApplyLedgerMaterialOfChangedCells(s, env, mat, ids, operation_ids, is_add) ==
  IF is_add
  THEN LET s1 == addCellsToMaterial(addCellsToEnvironment(s, env, ids), mat, ids)
       IN [s1 EXCEPT !.nbEnv = IncAt(@, ids, 1),
                     !.log = Append(@, Event("nbEnv", env, -1, ids, <<>>, NoRead))]
  ELSE LET s1 == removeCellsToMaterial(removeCellsToEnvironment(s, env, ids), mat, ids)
       IN [s1 EXCEPT !.nbEnv = IncAt(@, ids, -1),
                     !.log = Append(@, Event("nbEnv", env, -1, ids, <<>>, NoRead))]

\* Mutant: the connectivity list is updated for the material first.
ApplyLedgerMaterialFirst(s, env, mat, ids, operation_ids, is_add) ==
  IF is_add
  THEN LET s1 == addCellsToEnvironment(addCellsToMaterial(s, mat, operation_ids), env, ids)
       IN [s1 EXCEPT !.nbEnv = IncAt(@, ids, 1),
                     !.log = Append(@, Event("nbEnv", env, -1, ids, <<>>, NoRead))]
  ELSE LET s1 == removeCellsToEnvironment(removeCellsToMaterial(s, mat, operation_ids), env, ids)
       IN [s1 EXCEPT !.nbEnv = IncAt(@, ids, -1),
                     !.log = Append(@, Event("nbEnv", env, -1, ids, <<>>, NoRead))]

\* Mutant: m_nb_env_per_cell is updated in every cell of the operation.
ApplyLedgerAllCells(s, env, mat, ids, operation_ids, is_add) ==
  IF is_add
  THEN LET s1 == addCellsToMaterial(addCellsToEnvironment(s, env, ids), mat, operation_ids)
       IN [s1 EXCEPT !.nbEnv = IncAt(@, operation_ids, 1),
                     !.log = Append(@, Event("nbEnv", env, -1, operation_ids, <<>>, NoRead))]
  ELSE LET s1 == removeCellsToMaterial(removeCellsToEnvironment(s, env, ids), mat, operation_ids)
       IN [s1 EXCEPT !.nbEnv = IncAt(@, operation_ids, -1),
                     !.log = Append(@, Event("nbEnv", env, -1, operation_ids, <<>>, NoRead))]

\* Lines 877-897: the connectivity list, then m_nb_env_per_cell.
ApplyLedger(s, env, mat, ids, operation_ids, is_add) ==
  IF is_add
  THEN LET s1 == addCellsToMaterial(addCellsToEnvironment(s, env, ids), mat, operation_ids)
       IN [s1 EXCEPT !.nbEnv = IncAt(@, ids, 1),
                     !.log = Append(@, Event("nbEnv", env, -1, ids, <<>>, NoRead))]
  ELSE LET s1 == removeCellsToMaterial(removeCellsToEnvironment(s, env, ids), mat, operation_ids)
       IN [s1 EXCEPT !.nbEnv = IncAt(@, ids, -1),
                     !.log = Append(@, Event("nbEnv", env, -1, ids, <<>>, NoRead))]

\* Mutant: the cells are never removed from the group of the environment.
ApplyGroupsEnvironmentKept(s, env, mat, ids, need_update_env, is_add) ==
  LET s1 == groupAdd([s EXCEPT !.matCells[mat] =
                        IF is_add THEN @ \cup Range(ids) ELSE @ \ Range(ids)],
                     "matGroup", mat, ids)
      s2 == IF need_update_env
            THEN groupAdd([s1 EXCEPT !.envCells[env] =
                             IF is_add THEN @ \cup Range(ids) ELSE @],
                          "envGroup", env, ids)
            ELSE s1
  IN IF is_add
     THEN _addItemsToEnvironment(s2, env, mat, ids, need_update_env)
     ELSE _removeItemsFromEnvironment(s2, env, mat, ids, need_update_env)

\* Mutant: the group and the indexer of the environment are never updated.
ApplyGroupsMaterialOnly(s, env, mat, ids, need_update_env, is_add) ==
  LET s1 == groupAdd([s EXCEPT !.matCells[mat] =
                        IF is_add THEN @ \cup Range(ids) ELSE @ \ Range(ids)],
                     "matGroup", mat, ids)
  IN IF is_add
     THEN _addItemsToEnvironment(s1, env, mat, ids, FALSE)
     ELSE _removeItemsFromEnvironment(s1, env, mat, ids, FALSE)

\* Lines 908-923: the groups and indexers of the modified material and of
\* its environment.
ApplyGroups(s, env, mat, ids, need_update_env, is_add) ==
  LET s1 == groupAdd([s EXCEPT !.matCells[mat] =
                        IF is_add THEN @ \cup Range(ids) ELSE @ \ Range(ids)],
                     "matGroup", mat, ids)
      s2 == IF need_update_env
            THEN groupAdd([s1 EXCEPT !.envCells[env] =
                             IF is_add THEN @ \cup Range(ids) ELSE @ \ Range(ids)],
                          "envGroup", env, ids)
            ELSE s1
  IN IF is_add
     THEN _addItemsToEnvironment(s2, env, mat, ids, need_update_env)
     ELSE _removeItemsFromEnvironment(s2, env, mat, ids, need_update_env)

\* Mutant: the other environments are scanned before the other materials.
ApplyEnvironmentsScannedFirst(s, mat, operation_ids, is_add) ==
  LET env == trueEnvironment[mat]
      nb_mat == nbMaterial(env)
      s0 == [s EXCEPT !.log = <<>>]
      s1 == IF nb_mat # 1
            THEN ApplyUnchanged(s0, env, mat,
                                cells_unchanged_in_env(s0, env, operation_ids, is_add), is_add)
            ELSE s0
      ids == IF nb_mat # 1
             THEN cells_changed_in_env(s0, env, operation_ids, is_add)
             ELSE operation_ids
      s2 == ApplyLedger(s1, env, mat, ids, operation_ids, is_add)
      s3 == _switchComponentItemsForEnvironments(s2, env, is_add)
      s4 == _switchComponentItemsForMaterials(s3, mat, is_add)
  IN ApplyGroups(s4, env, mat, ids, nb_mat # 1, is_add)

\* Mutant: the ledger is updated after the other components are scanned.
ApplyTransformsBeforeLedger(s, mat, operation_ids, is_add) ==
  LET env == trueEnvironment[mat]
      nb_mat == nbMaterial(env)
      s0 == [s EXCEPT !.log = <<>>]
      s1 == IF nb_mat # 1
            THEN ApplyUnchanged(s0, env, mat,
                                cells_unchanged_in_env(s0, env, operation_ids, is_add), is_add)
            ELSE s0
      ids == IF nb_mat # 1
             THEN cells_changed_in_env(s0, env, operation_ids, is_add)
             ELSE operation_ids
      s2 == _switchComponentItemsForMaterials(s1, mat, is_add)
      s3 == _switchComponentItemsForEnvironments(s2, env, is_add)
      s4 == ApplyLedger(s3, env, mat, ids, operation_ids, is_add)
  IN ApplyGroups(s4, env, mat, ids, nb_mat # 1, is_add)

apply(s, mat, operation_ids, is_add) ==
  LET env == trueEnvironment[mat]
      nb_mat == nbMaterial(env)
      s0 == [s EXCEPT !.log = <<>>]
      s1 == IF nb_mat # 1
            THEN ApplyUnchanged(s0, env, mat,
                                cells_unchanged_in_env(s0, env, operation_ids, is_add), is_add)
            ELSE s0
      ids == IF nb_mat # 1
             THEN cells_changed_in_env(s0, env, operation_ids, is_add)
             ELSE operation_ids
      s2 == ApplyLedger(s1, env, mat, ids, operation_ids, is_add)
      s3 == _switchComponentItemsForMaterials(s2, mat, is_add)
      s4 == _switchComponentItemsForEnvironments(s3, env, is_add)
  IN ApplyGroups(s4, env, mat, ids, nb_mat # 1, is_add)

(***************************************************************************)
(* AllEnvData::_updateMaterialDirect, the update that does not go through   *)
(* the incremental modifier: it reads and writes m_nb_env_per_cell and      *)
(* m_nb_mat_per_cell only, never the connectivity list.                     *)
(***************************************************************************)
\* MeshMaterialVariableIndexer::transformCells(cells_nb_env, cells_nb_mat,
\* ..., is_add, is_env): the flags come from the two count arrays.
transformCellsFlags(s, env, is_add, is_env) ==
  [c \in Cells |->
     IF is_add
     THEN s.nbEnv[c] > 1 \/ (~is_env /\ s.nbMat[env][c] > 1)
     ELSE s.nbEnv[c] = 1 /\ (is_env \/ s.nbMat[env][c] = 1)]

RECURSIVE SwitchMaterialsDirectFrom(_, _, _, _)
SwitchMaterialsDirectFrom(s, i, modified_mat, is_add) ==
  IF i > Len(allMaterials) THEN s
  ELSE LET mat == allMaterials[i]
           env == trueEnvironment[mat]
       IN IF mat = modified_mat
          THEN SwitchMaterialsDirectFrom(s, i + 1, modified_mat, is_add)
          ELSE SwitchMaterialsDirectFrom(
                 TransformIndexer(s, "transformMat", mat, matIndexer[mat],
                                  transformCellsFlags(s, env, is_add, FALSE),
                                  s.nbMat[env], is_add),
                 i + 1, modified_mat, is_add)

RECURSIVE SwitchEnvironmentsDirectFrom(_, _, _, _)
SwitchEnvironmentsDirectFrom(s, i, modified_env, is_add) ==
  IF i > Len(trueEnvironments) THEN s
  ELSE LET env == trueEnvironments[i]
       IN IF env = modified_env
          THEN SwitchEnvironmentsDirectFrom(s, i + 1, modified_env, is_add)
          ELSE SwitchEnvironmentsDirectFrom(
                 TransformIndexer(s, "transformEnv", env, envIndexer[env],
                                  transformCellsFlags(s, env, is_add, TRUE),
                                  ZeroCells, is_add),
                 i + 1, modified_env, is_add)

\* MeshEnvironment::updateItemsDirect: the counts of the environment and the
\* indexers of the material and, when asked, of the environment.
updateItemsDirect(s, env, mat, local_ids, is_add, update_env_indexer) ==
  IF is_add
  THEN _addItemsToEnvironment(s, env, mat, local_ids, update_env_indexer)
  ELSE _removeItemsFromEnvironment(s, env, mat, local_ids, update_env_indexer)

\* Mutant: the environment count is adjusted in every cell of the operation.
UpdateMaterialDirectAllCells(s, mat, operation_ids, is_add) ==
  LET env == trueEnvironment[mat]
      nb_mat == nbMaterial(env)
      ref_nb_mat == IF is_add THEN 0 ELSE 1
      s0 == [s EXCEPT !.log = <<>>]
      unchanged == SelectSeq(operation_ids, LAMBDA lid : s0.nbMat[env][lid] # ref_nb_mat)
      ids == IF nb_mat # 1
             THEN SelectSeq(operation_ids, LAMBDA lid : s0.nbMat[env][lid] = ref_nb_mat)
             ELSE operation_ids
      s1 == IF nb_mat # 1
            THEN updateItemsDirect(
                   groupAdd([s0 EXCEPT !.matCells[mat] =
                               IF is_add THEN @ \cup Range(unchanged) ELSE @ \ Range(unchanged)],
                            "matGroup", mat, unchanged),
                   env, mat, unchanged, is_add, FALSE)
            ELSE s0
      s2 == [s1 EXCEPT !.nbEnv = IncAt(@, operation_ids, IF is_add THEN 1 ELSE -1),
                       !.log = Append(@, Event("nbEnv", env, -1, ids, <<>>, NoRead))]
      s3 == SwitchMaterialsDirectFrom(s2, 1, mat, is_add)
      s4 == SwitchEnvironmentsDirectFrom(s3, 1, env, is_add)
      need_update_env == nb_mat # 1
      s5 == groupAdd([s4 EXCEPT !.matCells[mat] =
                        IF is_add THEN @ \cup Range(ids) ELSE @ \ Range(ids)],
                     "matGroup", mat, ids)
      s6 == IF need_update_env
            THEN groupAdd([s5 EXCEPT !.envCells[env] =
                             IF is_add THEN @ \cup Range(ids) ELSE @ \ Range(ids)],
                          "envGroup", env, ids)
            ELSE s5
  IN updateItemsDirect(s6, env, mat, ids, is_add, need_update_env)

_updateMaterialDirect(s, mat, operation_ids, is_add) ==
  LET env == trueEnvironment[mat]
      nb_mat == nbMaterial(env)
      ref_nb_mat == IF is_add THEN 0 ELSE 1
      s0 == [s EXCEPT !.log = <<>>]
      unchanged == SelectSeq(operation_ids, LAMBDA lid : s0.nbMat[env][lid] # ref_nb_mat)
      ids == IF nb_mat # 1
             THEN SelectSeq(operation_ids, LAMBDA lid : s0.nbMat[env][lid] = ref_nb_mat)
             ELSE operation_ids
      s1 == IF nb_mat # 1
            THEN updateItemsDirect(
                   groupAdd([s0 EXCEPT !.matCells[mat] =
                               IF is_add THEN @ \cup Range(unchanged) ELSE @ \ Range(unchanged)],
                            "matGroup", mat, unchanged),
                   env, mat, unchanged, is_add, FALSE)
            ELSE s0
      s2 == [s1 EXCEPT !.nbEnv = IncAt(@, ids, IF is_add THEN 1 ELSE -1),
                       !.log = Append(@, Event("nbEnv", env, -1, ids, <<>>, NoRead))]
      s3 == SwitchMaterialsDirectFrom(s2, 1, mat, is_add)
      s4 == SwitchEnvironmentsDirectFrom(s3, 1, env, is_add)
      need_update_env == nb_mat # 1
      s5 == groupAdd([s4 EXCEPT !.matCells[mat] =
                        IF is_add THEN @ \cup Range(ids) ELSE @ \ Range(ids)],
                     "matGroup", mat, ids)
      s6 == IF need_update_env
            THEN groupAdd([s5 EXCEPT !.envCells[env] =
                             IF is_add THEN @ \cup Range(ids) ELSE @ \ Range(ids)],
                          "envGroup", env, ids)
            ELSE s5
  IN updateItemsDirect(s6, env, mat, ids, is_add, need_update_env)

(***************************************************************************)
(* The cell groups.  env->cells() of a mono-material environment is the    *)
(* group of its material.                                                  *)
(***************************************************************************)
EnvGroup(s, env) ==
  IF nbMaterial(env) = 1 THEN s.matCells[trueMaterials[env][1]] ELSE s.envCells[env]

Card(S) == Cardinality(S)

(***************************************************************************)
(* Full recompute: the counts, then the indexers, from the groups.         *)
(***************************************************************************)
\* MeshEnvironment::computeNbMatPerCell
computeNbMatPerCell(s, env) ==
  [c \in Cells |-> Card({i \in DOMAIN trueMaterials[env] : c \in s.matCells[trueMaterials[env][i]]})]

\* The loop over the environments: ++m_nb_env_per_cell[icell] for the cells
\* of the group of each.
RECURSIVE CountEnvironmentsFrom(_, _, _)
CountEnvironmentsFrom(s, nb_env_per_cell, i) ==
  IF i > Len(trueEnvironments) THEN nb_env_per_cell
  ELSE CountEnvironmentsFrom(
         s,
         [c \in Cells |-> IF c \in EnvGroup(s, trueEnvironments[i])
                          THEN nb_env_per_cell[c] + 1
                          ELSE nb_env_per_cell[c]],
         i + 1)

\* Mutant: a count that was 0 before is left at 0.
ComputeNbEnvLeavingZero(s) ==
  [s EXCEPT !.nbEnv = [c \in Cells |->
                         IF s.nbEnv[c] = 0 THEN 0 ELSE CountEnvironmentsFrom(s, ZeroCells, 1)[c]],
            !.nbMat = [e \in Envs |-> computeNbMatPerCell(s, e)],
            !.totalNbCellMat = [e \in Envs |-> SumOver(computeNbMatPerCell(s, e), Cells)],
            !.log = Append(@, Event("nbEnvFill", "", -1, <<>>, <<>>,
                                    [NoRead EXCEPT !.nbEnv = s.nbEnv]))]

\* m_nb_env_per_cell.fill(0), then the loop.  The log keeps the counts the
\* fill erased.
_computeNbEnvAndNbMatPerCell(s) ==
  [s EXCEPT !.nbEnv = CountEnvironmentsFrom(s, ZeroCells, 1),
            !.nbMat = [e \in Envs |-> computeNbMatPerCell(s, e)],
            !.totalNbCellMat = [e \in Envs |-> SumOver(computeNbMatPerCell(s, e), Cells)],
            !.log = Append(@, Event("nbEnvFill", "", -1, <<>>, <<>>,
                                    [NoRead EXCEPT !.nbEnv = s.nbEnv]))]

\* First loop of _rebuildMaterialsAndEnvironmentsFromGroups.
RECURSIVE RebuildEnvironmentsFrom(_, _)
RebuildEnvironmentsFrom(s, i) ==
  IF i > Len(trueEnvironments) THEN s
  ELSE LET env == trueEnvironments[i]
       IN RebuildEnvironmentsFrom(
            [s EXCEPT !.ix[envIndexer[env]] =
               endUpdate(envIndexer[env], SortedSeq(EnvGroup(s, env)),
                         [c \in Cells |-> s.nbEnv[c] > 1])],
            i + 1)

\* MeshEnvironment::computeItemListForMaterials for every material.
RECURSIVE RebuildMaterialsFrom(_, _)
RebuildMaterialsFrom(s, i) ==
  IF i > Len(allMaterials) THEN s
  ELSE LET mat == allMaterials[i]
           env == trueEnvironment[mat]
       IN RebuildMaterialsFrom(
            [s EXCEPT !.ix[matIndexer[mat]] =
               endUpdate(matIndexer[mat], SortedSeq(s.matCells[mat]),
                         [c \in Cells |-> s.nbEnv[c] > 1 \/ s.nbMat[env][c] > 1])],
            i + 1)

\* Mutant: the list builder of an environment numbers the partial positions
\* after those the indexer holds, when they fit the partial arrays, instead
\* of from 0.
RECURSIVE RebuildEnvironmentsAfterHeld(_, _)
RebuildEnvironmentsAfterHeld(s, i) ==
  IF i > Len(trueEnvironments) THEN RebuildMaterialsFrom(s, 1)
  ELSE LET env == trueEnvironments[i]
           nb_partial == Card({c \in EnvGroup(s, env) : s.nbEnv[c] > 1})
           held == maxIndexInMultipleArray(s.ix[envIndexer[env]]) + 1
       IN RebuildEnvironmentsAfterHeld(
            [s EXCEPT !.ix[envIndexer[env]] =
               BuildEntries(SortedSeq(EnvGroup(s, env)), envIndexer[env],
                            [c \in Cells |-> s.nbEnv[c] > 1],
                            IF held + nb_partial <= MaxPos + 1 THEN held ELSE 0)],
            i + 1)

RebuildNumberingAfterHeld(s) == RebuildEnvironmentsAfterHeld(s, 1)

_rebuildMaterialsAndEnvironmentsFromGroups(s) ==
  RebuildMaterialsFrom(RebuildEnvironmentsFrom(s, 1), 1)

(***************************************************************************)
(* The enumeration tree (ComponentItemInternal).  A node has a parent      *)
(* (super), a first child, a number of children, a MatVarIndex and a       *)
(* level; links are positions in the arenas, -1 for null.                  *)
(***************************************************************************)
LEVEL_MATERIAL == "LEVEL_MATERIAL"
LEVEL_ENVIRONMENT == "LEVEL_ENVIRONMENT"
LEVEL_ALLENVIRONMENT == "LEVEL_ALLENVIRONMENT"

NullNode == [super |-> -1, first |-> -1, nbSub |-> 0, arr |-> -1, val |-> -1, level |-> "none"]

Node(super, first, nbSub, arr, val, level) ==
  [super |-> super, first |-> first, nbSub |-> nbSub, arr |-> arr, val |-> val, level |-> level]

Arena(n) == [p \in 0..(n - 1) |-> NullNode]

\* Mutant: the EnvCell arena is sized for every environment in every cell.
TotalEnvCellOfMesh(s) == Len(trueEnvironments) * Card(Cells)

\* _computeAndResizeEnvItemsInternal: the size of the EnvCell arena.
total_env_cell(s) == SumOver([e \in Envs |-> Card(EnvGroup(s, e))], Envs)

\* Mutant: the positions are not accumulated over the cells.
EnvCellIndexesFromZero(s) == [c \in Cells |-> 0]

\* env_cell_indexes: the first EnvCell position of every cell.
env_cell_indexes(s) == [c \in Cells |-> SumOver(s.nbEnv, {d \in Cells : d < c})]

\* Mutant: the position of the cell is not advanced after a node is set.
RECURSIVE EnvEntriesNotAdvancing(_, _, _, _)
EnvEntriesNotAdvancing(s, env, z, acc) ==
  LET ix == s.ix[envIndexer[env]]
  IN IF z > Len(ix) THEN acc
     ELSE LET lid == ix[z].lid
              pos == acc.current_pos[lid]
          IN EnvEntriesNotAdvancing(s, env, z + 1,
               [acc EXCEPT !.envItems[pos] = Node(lid, -1, s.nbMat[env][lid], ix[z].arr,
                                                  ix[z].val, LEVEL_ENVIRONMENT),
                           !.envPtr[env] = Append(@, pos)])

\* Lines 279-292 for the entries z.. of one environment.
RECURSIVE EnvEntriesFrom(_, _, _, _)
EnvEntriesFrom(s, env, z, acc) ==
  LET ix == s.ix[envIndexer[env]]
  IN IF z > Len(ix) THEN acc
     ELSE LET lid == ix[z].lid
              pos == acc.current_pos[lid]
          IN EnvEntriesFrom(s, env, z + 1,
               [acc EXCEPT !.current_pos[lid] = pos + 1,
                           !.envItems[pos] = Node(lid, -1, s.nbMat[env][lid], ix[z].arr,
                                                  ix[z].val, LEVEL_ENVIRONMENT),
                           !.envPtr[env] = Append(@, pos)])

RECURSIVE EnvCellsFrom(_, _, _)
EnvCellsFrom(s, i, acc) ==
  IF i > Len(trueEnvironments) THEN acc
  ELSE EnvCellsFrom(s, i + 1,
         EnvEntriesFrom(s, trueEnvironments[i], 1,
                        [acc EXCEPT !.envPtr[trueEnvironments[i]] = <<>>]))

\* MeshEnvironment::computeMaterialIndexes, first block: the first MatCell
\* position of every EnvCell.
RECURSIVE MatIndexesFrom(_, _, _, _)
MatIndexesFrom(env, ptr, z, acc) ==
  IF z > Len(ptr) THEN acc
  ELSE LET pos == ptr[z]
           lid == acc.envItems[pos].super
           nb_mat == acc.envItems[pos].nbSub
       IN MatIndexesFrom(env, ptr, z + 1,
            [acc EXCEPT !.cells_pos[lid] = acc.cell_index,
                        !.cells_env[lid] = pos,
                        !.envItems[pos].first = IF nb_mat # 0 THEN acc.cell_index ELSE @,
                        !.cell_index = @ + nb_mat])

\* MeshEnvironment::computeMaterialIndexes, second block, for one material.
RECURSIVE MatEntriesFrom(_, _, _, _, _)
MatEntriesFrom(s, env, mat, z, acc) ==
  LET ix == s.ix[matIndexer[mat]]
  IN IF z > Len(ix) THEN acc
     ELSE LET lid == ix[z].lid
              pos == acc.cells_pos[lid]
          IN MatEntriesFrom(s, env, mat, z + 1,
               [acc EXCEPT !.cells_pos[lid] = pos + 1,
                           !.matItems[env][pos] = Node(acc.cells_env[lid], -1, 0, ix[z].arr,
                                                       ix[z].val, LEVEL_MATERIAL),
                           !.matPtr[mat] = Append(@, pos)])

RECURSIVE MatCellsOfEnvFrom(_, _, _, _)
MatCellsOfEnvFrom(s, env, i, acc) ==
  IF i > Len(trueMaterials[env]) THEN acc
  ELSE MatCellsOfEnvFrom(s, env, i + 1,
         MatEntriesFrom(s, env, trueMaterials[env][i], 1,
                        [acc EXCEPT !.matPtr[trueMaterials[env][i]] = <<>>]))

computeMaterialIndexes(s, env, acc) ==
  MatCellsOfEnvFrom(s, env, 1,
    MatIndexesFrom(env, acc.envPtr[env], 1,
                   [acc EXCEPT !.cell_index = 0,
                               !.cells_pos = [c \in Cells |-> -1],
                               !.cells_env = [c \in Cells |-> -1],
                               !.matItems[env] = Arena(s.totalNbCellMat[env])]))

RECURSIVE MaterialIndexesFrom(_, _, _)
MaterialIndexesFrom(s, i, acc) ==
  IF i > Len(trueEnvironments) THEN acc
  ELSE MaterialIndexesFrom(s, i + 1, computeMaterialIndexes(s, trueEnvironments[i], acc))

\* Mutant: the first child is set whatever the number of environments.
AllEnvCellsAlwaysFirst(s, acc) ==
  [acc EXCEPT !.allEnvItems =
     [c \in Cells |-> Node(-1, env_cell_indexes(s)[c], s.nbEnv[c], 0, c, LEVEL_ALLENVIRONMENT)]]

\* Lines 299-313: the AllEnvCell of every cell.
AllEnvCells(s, acc) ==
  [acc EXCEPT !.allEnvItems =
     [c \in Cells |-> Node(-1, IF s.nbEnv[c] # 0 THEN env_cell_indexes(s)[c] ELSE -1,
                           s.nbEnv[c], 0, c, LEVEL_ALLENVIRONMENT)]]

\* resetEnvItemsInternal then _computeInfosForEnvCells.
_computeInfosForEnvCells(s) ==
  LET acc0 == [current_pos |-> env_cell_indexes(s),
               allEnvItems |-> [c \in Cells |-> NullNode],
               envItems |-> Arena(total_env_cell(s)),
               matItems |-> [e \in Envs |-> <<>>],
               envPtr |-> [e \in Envs |-> <<>>],
               matPtr |-> [m \in Mats |-> <<>>],
               cell_index |-> 0,
               cells_pos |-> [c \in Cells |-> -1],
               cells_env |-> [c \in Cells |-> -1]]
      acc == AllEnvCells(s, MaterialIndexesFrom(s, 1, EnvCellsFrom(s, 1, acc0)))
  IN [allEnvItems |-> acc.allEnvItems, envItems |-> acc.envItems, matItems |-> acc.matItems,
      envPtr |-> acc.envPtr, matPtr |-> acc.matPtr]

(***************************************************************************)
(* The coherency checkers and the outcome of a verification: none was run, *)
(* it returned normally, or it raised one fatal error.                     *)
(***************************************************************************)
NoReport == [kind |-> "none", what |-> "", nb_error |-> 0, errors |-> <<>>]

Passed(what) == [kind |-> "ok", what |-> what, nb_error |-> 0, errors |-> <<>>]

Fatal(what, nb_error, errors) ==
  [kind |-> "fatal", what |-> what, nb_error |-> nb_error, errors |-> errors]

\* if (nb_error<10) error() << ...
ErrorReportLimit == 10

Mismatch(what, env, cell, ref, current) ==
  [what |-> what, env |-> env, cell |-> cell, ref |-> ref, current |-> current]

\* One comparison of a scan: ++nb_error on a difference, and the difference
\* is printed while nb_error is below the limit.
Compare(acc, what, env, cell, ref, current) ==
  IF ref # current
  THEN [nb_error |-> acc.nb_error + 1,
        errors |-> IF acc.nb_error + 1 < ErrorReportLimit
                   THEN Append(acc.errors, Mismatch(what, env, cell, ref, current))
                   ELSE acc.errors]
  ELSE acc

\* ENUMERATE_CELL(icell, all_cells) over two arrays of counts.
RECURSIVE ScanCells(_, _, _, _, _, _)
ScanCells(acc, what, env, all_cells, ref, current) ==
  IF all_cells = <<>> THEN acc
  ELSE ScanCells(Compare(acc, what, env, Head(all_cells), ref[Head(all_cells)],
                         current[Head(all_cells)]),
                 what, env, Tail(all_cells), ref, current)

RECURSIVE ScanEnvironments(_, _, _, _)
ScanEnvironments(acc, s, i, all_cells) ==
  IF i > Len(trueEnvironments) THEN acc
  ELSE LET env == trueEnvironments[i]
       IN ScanEnvironments(ScanCells(acc, "nb_material environment", env, all_cells,
                                     s.nbMat[env], s.cellNbMaterial[env]),
                           s, i + 1, all_cells)

\* The sum of the counts of the environments, per cell.
NbMatOfCells(counts) ==
  [c \in DOMAIN counts[trueEnvironments[1]] |->
     SumOver([e \in Envs |-> counts[e][c]], Envs)]

\* Mutant: the error is raised at the first difference.
CheckConnectivityStopAtFirst(s) ==
  LET all_cells == SortedSeq(DOMAIN s.nbEnv)
      a0 == [nb_error |-> 0, errors |-> <<>>]
      a1 == ScanCells(a0, "nb_environment", "", all_cells, s.nbEnv, s.cellNbEnvironment)
      a2 == ScanCells(a1, "nb_material", "", all_cells, NbMatOfCells(s.nbMat),
                      NbMatOfCells(s.cellNbMaterial))
      a3 == ScanEnvironments(a2, s, 1, all_cells)
  IN [s |-> s,
      report |-> IF a3.nb_error # 0
                 THEN Fatal("connectivity", 1, SubSeq(a3.errors, 1, 1))
                 ELSE Passed("connectivity")]

\* Mutant: the ledger is set to the counts of the connectivity list where
\* they differ.
CheckConnectivityRepairing(s) ==
  LET all_cells == SortedSeq(DOMAIN s.nbEnv)
      a0 == [nb_error |-> 0, errors |-> <<>>]
      a1 == ScanCells(a0, "nb_environment", "", all_cells, s.nbEnv, s.cellNbEnvironment)
      a2 == ScanCells(a1, "nb_material", "", all_cells, NbMatOfCells(s.nbMat),
                      NbMatOfCells(s.cellNbMaterial))
      a3 == ScanEnvironments(a2, s, 1, all_cells)
  IN [s |-> [s EXCEPT !.nbEnv = s.cellNbEnvironment, !.nbMat = s.cellNbMaterial],
      report |-> IF a3.nb_error # 0
                 THEN Fatal("connectivity", a3.nb_error, a3.errors)
                 ELSE Passed("connectivity")]

\* AllEnvData::_checkConnectivityCoherency: the engine state it leaves and
\* its outcome.
_checkConnectivityCoherency(s) ==
  LET all_cells == SortedSeq(DOMAIN s.nbEnv)
      a0 == [nb_error |-> 0, errors |-> <<>>]
      a1 == ScanCells(a0, "nb_environment", "", all_cells, s.nbEnv, s.cellNbEnvironment)
      a2 == ScanCells(a1, "nb_material", "", all_cells, NbMatOfCells(s.nbMat),
                      NbMatOfCells(s.cellNbMaterial))
      a3 == ScanEnvironments(a2, s, 1, all_cells)
  IN [s |-> s,
      report |-> IF a3.nb_error # 0
                 THEN Fatal("connectivity", a3.nb_error, a3.errors)
                 ELSE Passed("connectivity")]

\* The first (environment, index) at which the local id of the indexer is
\* not the global cell of the ComponentCell, as a set of at most one pair.
FirstIncoherentLocalId(s, tr) ==
  LET all == UNION {{<<i, z>> : z \in DOMAIN tr.envPtr[trueEnvironments[i]]} :
                      i \in DOMAIN trueEnvironments}
      bad == {p \in all :
                LET env == trueEnvironments[p[1]]
                IN \/ p[2] \notin DOMAIN s.ix[envIndexer[env]]
                   \/ tr.envItems[tr.envPtr[env][p[2]]].super
                        # localIds(s.ix[envIndexer[env]])[p[2]]}
  IN {p \in bad : \A q \in bad : q[1] > p[1] \/ (q[1] = p[1] /\ q[2] >= p[2])}

\* AllEnvData::_checkLocalIdsCoherency, a const method.
_checkLocalIdsCoherency(s, tr) ==
  LET first == FirstIncoherentLocalId(s, tr)
  IN IF first = {} THEN Passed("localIds")
     ELSE LET p == CHOOSE q \in first : TRUE
              env == trueEnvironments[p[1]]
          IN Fatal("localIds", 1,
                   <<Mismatch("localId", env, p[2] - 1,
                              tr.envItems[tr.envPtr[env][p[2]]].super,
                              IF p[2] \in DOMAIN s.ix[envIndexer[env]]
                              THEN s.ix[envIndexer[env]][p[2]].lid ELSE -1)>>)

(***************************************************************************)
(* MemoryPool::Impl (arcane/utils/MemoryPool.cc).                          *)
(***************************************************************************)
NbPointers == 3

MaxCalls == 5

\* The addresses the underlying allocator can return.
Pointers == 1..NbPointers

m_max_memory_size_to_pool == 1024 * 64 * 4 * 4

\* The sizes asked for: two that are pooled, the larger the threshold
\* itself, and one above the threshold.
Sizes == {64, m_max_memory_size_to_pool, m_max_memory_size_to_pool + 1}

IsPooled(size) == ~(m_max_memory_size_to_pool # 0 /\ size > m_max_memory_size_to_pool)

PooledSizes == {size \in Sizes : IsPooled(size)}

NoCall ==
  [op |-> "", ptr |-> 0, size |-> 0, returned |-> 0, fatal |-> "", from_allocator |-> FALSE]

\* allocated: m_allocated_memory_map; free: m_free_memory_map, the number
\* of entries (size, ptr) of the multimap; heap: the blocks the underlying
\* allocator has given and not got back; bypassed: a call with a size
\* above the threshold was given a block that the pool holds.
EmptyPool ==
  [allocated |-> [q \in {} |-> 0],
   free |-> [size \in PooledSizes |-> [q \in Pointers |-> 0]],
   total_allocated |-> 0,
   total_free |-> 0,
   nb_cached |-> 0,
   heap |-> {},
   bypassed |-> FALSE,
   nb_calls |-> 0,
   last |-> NoCall]

\* ARCANE_FATAL: the exception leaves the call.
Thrown(p, message) == [p EXCEPT !.last.fatal = message]

HasThrown(p) == p.last.fatal # ""

\* The pointers of the entries of the free map.
FreePointers(p) == {q \in Pointers : \E size \in PooledSizes : p.free[size][q] > 0}

\* The pointers that m_free_memory_map.find(size) can return.
FreeOfSize(p, size) == {q \in Pointers : p.free[size][q] > 0}

\* Mutant: the entry is erased before the size is compared.
RemovePointerEraseFirst(p, ptr, size) ==
  IF ptr \notin DOMAIN p.allocated
  THEN Thrown(p, "not in the allocated map")
  ELSE LET erased == [p EXCEPT !.allocated = [q \in DOMAIN p.allocated \ {ptr} |-> p.allocated[q]]]
       IN IF size # p.allocated[ptr] THEN Thrown(erased, "Incoherent size") ELSE erased

removePointer(p, ptr, size) ==
  IF ptr \notin DOMAIN p.allocated
  THEN Thrown(p, "not in the allocated map")
  ELSE IF size # p.allocated[ptr]
  THEN Thrown(p, "Incoherent size")
  ELSE [p EXCEPT !.allocated = [q \in DOMAIN p.allocated \ {ptr} |-> p.allocated[q]]]

addPointer(p, ptr, size) ==
  IF ptr \in DOMAIN p.allocated
  THEN Thrown(p, "already in the allocated map")
  ELSE [p EXCEPT !.allocated = [q \in DOMAIN p.allocated \cup {ptr} |->
                                  IF q = ptr THEN size ELSE p.allocated[q]]]

_addAllocated(p, ptr, size) ==
  LET q == addPointer(p, ptr, size)
  IN IF HasThrown(q) THEN q ELSE [q EXCEPT !.total_allocated = @ + size]

\* m_allocator->allocateMemory: the underlying allocator gives the block
\* new_ptr, one it has not given or has got back.
AllocatorAllocate(p, new_ptr) ==
  [p EXCEPT !.heap = @ \cup {new_ptr}, !.last.from_allocator = TRUE]

\* A call begins: the record of the last call is reset.
BeginCall(p, op, ptr, size) ==
  [p EXCEPT !.nb_calls = @ + 1,
            !.last = [NoCall EXCEPT !.op = op, !.ptr = ptr, !.size = size]]

Returned(p, ptr) == IF HasThrown(p) THEN p ELSE [p EXCEPT !.last.returned = ptr]

\* Mutant: the entry found in the free map is not erased.
AllocateMemoryKeepingFree(p, size, found, new_ptr) ==
  LET b == BeginCall(p, "allocateMemory", 0, size)
  IN IF ~IsPooled(size)
     THEN Returned(AllocatorAllocate(b, new_ptr), new_ptr)
     ELSE IF FreeOfSize(p, size) # {}
     THEN Returned(_addAllocated([b EXCEPT !.total_free = @ - size, !.nb_cached = @ + 1],
                                 found, size), found)
     ELSE Returned(_addAllocated(AllocatorAllocate(b, new_ptr), new_ptr, size), new_ptr)

\* found is the entry that find(size) returns when the free map has
\* entries of the size, new_ptr the block the underlying allocator gives
\* if it is called.
allocateMemory(p, size, found, new_ptr) ==
  LET b == BeginCall(p, "allocateMemory", 0, size)
  IN IF ~IsPooled(size)
     THEN Returned(AllocatorAllocate(b, new_ptr), new_ptr)
     ELSE IF FreeOfSize(p, size) # {}
     THEN Returned(_addAllocated([b EXCEPT !.free[size][found] = @ - 1,
                                           !.total_free = @ - size,
                                           !.nb_cached = @ + 1],
                                 found, size), found)
     ELSE Returned(_addAllocated(AllocatorAllocate(b, new_ptr), new_ptr, size), new_ptr)

\* m_allocator->freeMemory: the underlying allocator gets the block back;
\* for a block it does not hold its behaviour is not defined, and the
\* call either has no effect or aborts.
AllocatorFree(p, ptr, aborts) ==
  IF ptr \in p.heap THEN [p EXCEPT !.heap = @ \ {ptr}]
  ELSE IF aborts THEN Thrown(p, "underlying allocator") ELSE p

freeMemory(p, ptr, size, aborts) ==
  LET b == BeginCall(p, "freeMemory", ptr, size)
  IN IF ~IsPooled(size)
     THEN AllocatorFree([b EXCEPT !.bypassed = @ \/ ptr \in DOMAIN p.allocated \cup FreePointers(p)],
                        ptr, aborts)
     ELSE LET r == removePointer(b, ptr, size)
          IN IF HasThrown(r) THEN r
             ELSE [r EXCEPT !.free[size][ptr] = @ + 1,
                            !.total_allocated = @ - size,
                            !.total_free = @ + size]

(***************************************************************************)
(* The state of the engine.                                                *)
(***************************************************************************)
VARIABLES
  matCells,           \* mat->cells() of every material
  envCells,           \* env->cells() of every multi-material environment
  nbEnv,              \* m_nb_env_per_cell
  nbMat,              \* env->m_nb_mat_per_cell of every environment
  totalNbCellMat,     \* env->totalNbCellMat() of every environment
  cellNbEnvironment,  \* ComponentConnectivityList::cellNbEnvironment
  cellNbMaterial,     \* ComponentConnectivityList::cellNbMaterial(cell, env)
  ix,                 \* the entries of every variable indexer
  gval,               \* the global values of every variable
  pval,               \* the partial values of every variable, per indexer
  tree,               \* the enumeration tree built by the last recompute
  dirty,              \* an operation was applied since the last recompute
  log,                \* the steps of the last operation
  lastOp,             \* the last operation
  rt,                 \* the state before the last add operation, and whether a
                      \* global value of its cells was assigned since
  fullRuns,           \* full recomputes in a row, counted up to 2
  isCheck,            \* arcaneIsCheck()
  report,             \* the outcome of the last verification
  nbUpdates,          \* the updates asked for in check-mode runs
  pool                \* the MemoryPool::Impl and the allocator under it

vars == <<matCells, envCells, nbEnv, nbMat, totalNbCellMat, cellNbEnvironment,
          cellNbMaterial, ix, gval, pval, tree, dirty, log, lastOp, rt, fullRuns,
          isCheck, report, nbUpdates, pool>>

\* The engine state as one record, the shape the operators above work on.
State ==
  [matCells |-> matCells, envCells |-> envCells, nbEnv |-> nbEnv, nbMat |-> nbMat,
   totalNbCellMat |-> totalNbCellMat, cellNbEnvironment |-> cellNbEnvironment,
   cellNbMaterial |-> cellNbMaterial, ix |-> ix, gval |-> gval, pval |-> pval,
   log |-> log]

Install(s) ==
  /\ matCells' = s.matCells
  /\ envCells' = s.envCells
  /\ nbEnv' = s.nbEnv
  /\ nbMat' = s.nbMat
  /\ totalNbCellMat' = s.totalNbCellMat
  /\ cellNbEnvironment' = s.cellNbEnvironment
  /\ cellNbMaterial' = s.cellNbMaterial
  /\ ix' = s.ix
  /\ gval' = s.gval
  /\ pval' = s.pval
  /\ log' = s.log

NoOp == [mat |-> "", ids |-> <<>>, is_add |-> FALSE]

Snapshot(s) ==
  [ix |-> s.ix, nbEnv |-> s.nbEnv, nbMat |-> s.nbMat,
   cellNbEnvironment |-> s.cellNbEnvironment, cellNbMaterial |-> s.cellNbMaterial,
   gval |-> s.gval]

EmptyState ==
  [matCells |-> [m \in Mats |-> {}],
   envCells |-> [e \in MultiEnvs |-> {}],
   nbEnv |-> ZeroCells,
   nbMat |-> [e \in Envs |-> ZeroCells],
   totalNbCellMat |-> [e \in Envs |-> 0],
   cellNbEnvironment |-> ZeroCells,
   cellNbMaterial |-> [e \in Envs |-> ZeroCells],
   ix |-> [i \in Indexers |-> <<>>],
   gval |-> [v \in FieldVars |-> ZeroCells],
   pval |-> [v \in FieldVars |-> [i \in Indexers |-> [p \in Positions |-> 0]]],
   log |-> <<>>]

NoRt ==
  [phase |-> "none", mat |-> "", cells |-> {}, written |-> FALSE, pre |-> Snapshot(EmptyState)]

\* After construction and endCreate no material is in any cell.
InitEngine ==
  /\ matCells = EmptyState.matCells
  /\ envCells = EmptyState.envCells
  /\ nbEnv = EmptyState.nbEnv
  /\ nbMat = EmptyState.nbMat
  /\ totalNbCellMat = EmptyState.totalNbCellMat
  /\ cellNbEnvironment = EmptyState.cellNbEnvironment
  /\ cellNbMaterial = EmptyState.cellNbMaterial
  /\ ix = EmptyState.ix
  /\ pval = EmptyState.pval
  /\ log = <<>>
  /\ tree = _computeInfosForEnvCells(EmptyState)
  /\ dirty = FALSE
  /\ lastOp = NoOp
  /\ rt = NoRt
  /\ fullRuns = 0
  /\ report = NoReport
  /\ nbUpdates = 0

Init ==
  /\ InitEngine
  /\ gval = EmptyState.gval
  /\ isCheck = FALSE
  /\ pool = EmptyPool

\* MaterialModifierOperation::filterIds accepts the operation: the cells to
\* add are not in the material, the cells to remove are.
ValidOperation(mat, ids, is_add) ==
  \A i \in DOMAIN ids : (ids[i] \in matCells[mat]) = ~is_add

\* The partial arrays hold MaxPos + 1 values per indexer.
WithinCapacity(s) ==
  \A i \in Indexers : maxIndexInMultipleArray(s.ix[i]) <= MaxPos

\* The value of a partial position no entry holds is unspecified: the slot
\* is free, and the model keeps 0 there.
FreeSlots(s) ==
  [s EXCEPT !.pval = [v \in FieldVars |-> [i \in Indexers |-> [p \in Positions |->
                        IF p \in PartialPositions(s.ix[i]) THEN s.pval[v][i][p] ELSE 0]]]]

NextRt(mat, ids, is_add) ==
  IF is_add
  THEN [phase |-> "added", mat |-> mat, cells |-> Range(ids), written |-> FALSE,
        pre |-> Snapshot(State)]
  ELSE IF rt.phase = "added" /\ rt.mat = mat /\ rt.cells = Range(ids)
       THEN [rt EXCEPT !.phase = "removed"]
       ELSE NoRt

\* AllEnvData::updateMaterialIncremental(operation), one operation per
\* update of the modifier; recomputeIncremental follows it.
Update(mat, ids, is_add) ==
  /\ ~dirty
  /\ report.kind # "fatal"
  /\ ValidOperation(mat, ids, is_add)
  /\ ~IncoherentNbMaterial(State, trueEnvironment[mat], ids)
  /\ LET s == FreeSlots(apply(State, mat, ids, is_add))
     IN /\ WithinCapacity(s)
        /\ Install(s)
  /\ lastOp' = [mat |-> mat, ids |-> ids, is_add |-> is_add]
  /\ rt' = NextRt(mat, ids, is_add)
  /\ dirty' = TRUE
  /\ fullRuns' = 0
  /\ report' = NoReport
  /\ UNCHANGED <<tree, isCheck, pool, nbUpdates>>

UpdateMaterialIncremental ==
  \E mat \in Mats, ids \in IdArrays, is_add \in BOOLEAN : Update(mat, ids, is_add)

\* AllEnvData::recomputeIncremental: forceRecompute(false), which checks the
\* local ids in check mode, then _checkConnectivityCoherency.
RecomputeIncremental ==
  /\ dirty
  /\ report.kind # "fatal"
  /\ LET tr == _computeInfosForEnvCells(State)
         local_ids == IF isCheck THEN _checkLocalIdsCoherency(State, tr) ELSE NoReport
         connectivity == _checkConnectivityCoherency(State)
     IN /\ tree' = tr
        /\ IF local_ids.kind = "fatal"
           THEN Install(State) /\ report' = local_ids
           ELSE Install(connectivity.s) /\ report' = connectivity.report
  /\ dirty' = FALSE
  /\ UNCHANGED <<lastOp, rt, fullRuns, isCheck, pool, nbUpdates>>

\* Mutant: the indexers are rebuilt before the counts are computed.
ForceRecomputeRebuildFirst(s) ==
  _computeNbEnvAndNbMatPerCell(_rebuildMaterialsAndEnvironmentsFromGroups(s))

\* forceRecompute(true) as an operator on the engine state.
forceRecomputeAll(s) ==
  _rebuildMaterialsAndEnvironmentsFromGroups(_computeNbEnvAndNbMatPerCell(s))

\* AllEnvData::forceRecompute(true)
ForceRecompute ==
  LET s == FreeSlots(forceRecomputeAll([State EXCEPT !.log = <<>>]))
      tr == _computeInfosForEnvCells(s)
  IN /\ report.kind # "fatal"
     /\ Install(s)
     /\ tree' = tr
     /\ dirty' = FALSE
     /\ lastOp' = NoOp
     /\ rt' = NoRt
     /\ fullRuns' = IF fullRuns < 2 THEN fullRuns + 1 ELSE 2
     /\ report' = IF isCheck THEN _checkLocalIdsCoherency(s, tr) ELSE NoReport
     /\ UNCHANGED <<isCheck, pool, nbUpdates>>

\* The client assigns the global value of the first variable in a cell.
WriteGlobal ==
  \E v \in {visitVariables[1]}, c \in Cells, x \in Values :
    /\ gval[v][c] # x
    /\ gval' = [gval EXCEPT ![v][c] = x]
    /\ rt' = IF rt.phase = "removed" THEN NoRt
             ELSE IF rt.phase = "added" /\ c \in rt.cells THEN [rt EXCEPT !.written = TRUE]
             ELSE rt
    /\ fullRuns' = 0
    /\ UNCHANGED <<matCells, envCells, nbEnv, nbMat, totalNbCellMat, cellNbEnvironment,
                   cellNbMaterial, ix, pval, tree, dirty, log, lastOp, isCheck, pool, report, nbUpdates>>

Next ==
  \/ UpdateMaterialIncremental
  \/ RecomputeIncremental
  \/ ForceRecompute

Spec == Init /\ [][Next]_vars

(***************************************************************************)
(* The scenario of one environment E1 with its materials A and B, with     *)
(* variables whose global values differ and change.                        *)
(***************************************************************************)
InitValues ==
  /\ InitEngine
  /\ isCheck = FALSE
  /\ pool = EmptyPool
  /\ gval \in {g \in [FieldVars -> [Cells -> Values]] :
                \A v \in FieldVars \ {visitVariables[1]} : g[v] = ZeroCells}

UpdateMaterialOfE1 ==
  \E mat \in Range(trueMaterials["E1"]), ids \in IdArrays, is_add \in BOOLEAN :
    Update(mat, ids, is_add)

NextValues ==
  \/ UpdateMaterialOfE1
  \/ RecomputeIncremental
  \/ ForceRecompute
  \/ WriteGlobal

SpecValues == InitValues /\ [][NextValues]_vars

(***************************************************************************)
(* Check mode.  The two entry points of an update, with the pre-filter of  *)
(* the operation when arcaneIsCheck(), on operations that may break the    *)
(* precondition; out of check mode the caller keeps the precondition.      *)
(***************************************************************************)
\* MaterialModifierOperation::filterIds: the ids of the operation that break
\* the precondition (already in the material on an add, not in it on a
\* remove).
filterIds(s, mat, ids, is_add) ==
  SelectSeq(ids, LAMBDA lid : (lid \in s.matCells[mat]) = is_add)

FilterFatal(entry, mat, ids, is_add) ==
  Fatal("filterIds", Len(ids),
        [i \in DOMAIN ids |-> Mismatch(entry, mat, ids[i], ~is_add, is_add)])

\* Mutant: the operation is filtered after it was applied.
UpdateMaterialDirectFilterLast(s, check, mat, ids, is_add) ==
  LET bad == filterIds(s, mat, ids, is_add)
  IN IF check /\ bad # <<>>
     THEN [s |-> _updateMaterialDirect(s, mat, ids, is_add),
           report |-> FilterFatal("updateMaterialDirect", mat, bad, is_add)]
     ELSE [s |-> _updateMaterialDirect(s, mat, ids, is_add), report |-> NoReport]

\* AllEnvData::updateMaterialDirect: the engine state and the outcome.
updateMaterialDirect(s, check, mat, ids, is_add) ==
  LET bad == filterIds(s, mat, ids, is_add)
  IN IF check /\ bad # <<>>
     THEN [s |-> s, report |-> FilterFatal("updateMaterialDirect", mat, bad, is_add)]
     ELSE [s |-> _updateMaterialDirect(s, mat, ids, is_add), report |-> NoReport]

\* Mutant: the cells in which the environment stays are applied as the scan
\* goes, before it reaches the cell whose two material counts differ.
UpdateMaterialIncrementalScanLate(s, check, mat, ids, is_add) ==
  LET bad == filterIds(s, mat, ids, is_add)
      env == trueEnvironment[mat]
  IN IF check /\ bad # <<>>
     THEN [s |-> s, report |-> FilterFatal("updateMaterialIncremental", mat, bad, is_add)]
     ELSE IF nbMaterial(env) # 1 /\ IncoherentNbMaterial(s, env, ids)
          THEN [s |-> ApplyUnchanged(s, env, mat, cells_unchanged_in_env(s, env, ids, is_add),
                                     is_add),
                report |-> Fatal("nbMaterial", 1, <<>>)]
          ELSE [s |-> apply(s, mat, ids, is_add), report |-> NoReport]

\* AllEnvData::updateMaterialIncremental: the engine state and the outcome;
\* apply stops at a cell whose two material counts differ.
updateMaterialIncremental(s, check, mat, ids, is_add) ==
  LET bad == filterIds(s, mat, ids, is_add)
      env == trueEnvironment[mat]
  IN IF check /\ bad # <<>>
     THEN [s |-> s, report |-> FilterFatal("updateMaterialIncremental", mat, bad, is_add)]
     ELSE IF nbMaterial(env) # 1 /\ IncoherentNbMaterial(s, env, ids)
          THEN [s |-> s, report |-> Fatal("nbMaterial", 1, <<>>)]
          ELSE [s |-> apply(s, mat, ids, is_add), report |-> NoReport]

InitCheck ==
  /\ InitEngine
  /\ gval = EmptyState.gval
  /\ isCheck \in BOOLEAN
  /\ pool = EmptyPool

UpdateChecked(direct, mat, ids, is_add) ==
  /\ ~dirty
  /\ report.kind # "fatal"
  /\ nbUpdates < MaxUpdates
  /\ nbUpdates' = nbUpdates + 1
  /\ isCheck \/ ValidOperation(mat, ids, is_add)
  /\ LET r == IF direct
              THEN updateMaterialDirect(State, isCheck, mat, ids, is_add)
              ELSE updateMaterialIncremental(State, isCheck, mat, ids, is_add)
         s == FreeSlots(r.s)
     IN /\ WithinCapacity(s)
        /\ Install(s)
        /\ report' = r.report
        /\ IF r.report.kind = "fatal"
           THEN UNCHANGED <<lastOp, rt, dirty, fullRuns>>
           ELSE /\ lastOp' = [mat |-> mat, ids |-> ids, is_add |-> is_add]
                /\ rt' = NextRt(mat, ids, is_add)
                /\ dirty' = TRUE
                /\ fullRuns' = 0
  /\ UNCHANGED <<tree, isCheck, pool>>

UpdateMaterialDirectChecked ==
  \E mat \in Mats, ids \in IdArrays, is_add \in BOOLEAN : UpdateChecked(TRUE, mat, ids, is_add)

UpdateMaterialIncrementalChecked ==
  \E mat \in Mats, ids \in IdArrays, is_add \in BOOLEAN : UpdateChecked(FALSE, mat, ids, is_add)

NextCheck ==
  \/ UpdateMaterialDirectChecked
  \/ UpdateMaterialIncrementalChecked
  \/ RecomputeIncremental
  \/ ForceRecompute

SpecCheck == InitCheck /\ [][NextCheck]_vars

(***************************************************************************)
(* The connectivity checker on its own.  It reads four arrays of counts:   *)
(* they are drawn for a mesh of three cells, the ledger and the            *)
(* connectivity list each from a composition of the cells.                 *)
(***************************************************************************)
CheckerCells == {1, 2, 3}

\* The counts of a composition comp, the cells of every material.
NbMatPerCellOf(comp) ==
  [e \in Envs |-> [c \in CheckerCells |->
     Card({i \in DOMAIN trueMaterials[e] : c \in comp[trueMaterials[e][i]]})]]

NbEnvPerCellOf(comp) ==
  [c \in CheckerCells |-> Card({e \in Envs : NbMatPerCellOf(comp)[e][c] # 0})]

LedgerCompositions == [Mats -> {{}, {1}, CheckerCells}]

ConnectivityCompositions == [Mats -> SUBSET CheckerCells]

InitChecker ==
  /\ \E comp \in LedgerCompositions :
       /\ nbEnv = NbEnvPerCellOf(comp)
       /\ nbMat = NbMatPerCellOf(comp)
  /\ \E comp \in ConnectivityCompositions :
       /\ cellNbEnvironment = NbEnvPerCellOf(comp)
       /\ cellNbMaterial = NbMatPerCellOf(comp)
  /\ matCells = EmptyState.matCells
  /\ envCells = EmptyState.envCells
  /\ totalNbCellMat = EmptyState.totalNbCellMat
  /\ ix = EmptyState.ix
  /\ gval = EmptyState.gval
  /\ pval = EmptyState.pval
  /\ log = <<>>
  /\ tree = _computeInfosForEnvCells(EmptyState)
  /\ dirty = FALSE
  /\ lastOp = NoOp
  /\ rt = NoRt
  /\ fullRuns = 0
  /\ isCheck = FALSE
  /\ pool = EmptyPool
  /\ report = NoReport
  /\ nbUpdates = 0

CheckConnectivityCoherency ==
  /\ report.kind = "none"
  /\ LET r == _checkConnectivityCoherency(State)
     IN Install(r.s) /\ report' = r.report
  /\ UNCHANGED <<tree, dirty, lastOp, rt, fullRuns, isCheck, pool, nbUpdates>>

NextChecker == CheckConnectivityCoherency

SpecChecker == InitChecker /\ [][NextChecker]_vars

(***************************************************************************)
(* The full recompute on its own.  It reads the cell groups; the counts    *)
(* and the indexers it finds are those of an earlier full recompute, done  *)
(* before the groups were given their present cells.                       *)
(***************************************************************************)
GroupCompositions == [Mats -> SUBSET Cells]

\* The engine with the cells of comp in the groups and nothing computed.
GroupsState(comp) ==
  [EmptyState EXCEPT
     !.matCells = comp,
     !.envCells = [e \in MultiEnvs |-> UNION {comp[m] : m \in Range(trueMaterials[e])}]]

InitRecompute ==
  \E before \in GroupCompositions, after \in GroupCompositions :
    LET computed == forceRecomputeAll(GroupsState(before))
        s == [computed EXCEPT !.matCells = after, !.envCells = GroupsState(after).envCells]
    IN /\ matCells = s.matCells
       /\ envCells = s.envCells
       /\ nbEnv = s.nbEnv
       /\ nbMat = s.nbMat
       /\ totalNbCellMat = s.totalNbCellMat
       /\ cellNbEnvironment = s.cellNbEnvironment
       /\ cellNbMaterial = s.cellNbMaterial
       /\ ix = s.ix
       /\ gval = s.gval
       /\ pval = s.pval
       /\ log = <<>>
       /\ tree = _computeInfosForEnvCells(computed)
       /\ dirty = FALSE
       /\ lastOp = NoOp
       /\ rt = NoRt
       /\ fullRuns = 0
       /\ isCheck = FALSE
       /\ pool = EmptyPool
       /\ report = NoReport
       /\ nbUpdates = 0

NextRecompute == ForceRecompute

SpecRecompute == InitRecompute /\ [][NextRecompute]_vars

(***************************************************************************)
(* The memory pool alone: any calls of allocateMemory and freeMemory, of   *)
(* any pointer and size, right or wrong.                                   *)
(***************************************************************************)
EngineVars ==
  <<matCells, envCells, nbEnv, nbMat, totalNbCellMat, cellNbEnvironment,
    cellNbMaterial, ix, gval, pval, tree, dirty, log, lastOp, rt, fullRuns,
    isCheck, report, nbUpdates>>

\* After construction the pool holds no block; the engine is not used.
InitPool ==
  /\ InitEngine
  /\ gval = EmptyState.gval
  /\ isCheck = FALSE
  /\ pool = EmptyPool

AllocateMemory ==
  /\ pool.nb_calls < MaxCalls
  /\ \E size \in Sizes :
       IF IsPooled(size) /\ FreeOfSize(pool, size) # {}
       THEN \E found \in FreeOfSize(pool, size) :
              pool' = allocateMemory(pool, size, found, 0)
       ELSE \E new_ptr \in Pointers \ pool.heap :
              pool' = allocateMemory(pool, size, 0, new_ptr)
  /\ UNCHANGED EngineVars

FreeMemory ==
  /\ pool.nb_calls < MaxCalls
  /\ \E ptr \in Pointers : \E size \in Sizes : \E aborts \in BOOLEAN :
       pool' = freeMemory(pool, ptr, size, aborts)
  /\ UNCHANGED EngineVars

NextPool ==
  \/ AllocateMemory
  \/ FreeMemory

SpecPool == InitPool /\ [][NextPool]_vars

(***************************************************************************)
(* Properties.                                                             *)
(***************************************************************************)
\* The materials of an environment, as a set.
MatsOfEnv(e) == Range(trueMaterials[e])

\* An incremental operation has been applied and nothing rebuilt the
\* indexers since.
AfterOperation == lastOp # NoOp

LogEvents(kind) == {i \in DOMAIN log : log[i].kind = kind}

\* The materials of e whose indexer holds c, as a pure or as a partial cell.
MaterialsHolding(c, e) ==
  {m \in MatsOfEnv(e) : c \in PureCells(ix[matIndexer[m]]) \cup PartialCells(ix[matIndexer[m]])}

\* C1: for every cell c and environment e, the material count of the ledger
\* (the counter of the environment and the one of the connectivity list)
\* is the number of materials of e whose indexer holds c.
LedgerIndexerAgreement ==
  \A c \in Cells, e \in Envs :
    /\ nbMat[e][c] = Cardinality(MaterialsHolding(c, e))
    /\ cellNbMaterial[e][c] = Cardinality(MaterialsHolding(c, e))

\* A remove operation has left one material of E1 in a cell that held two,
\* while the other cell still holds both.
LedgerIndexerAgreementWitness ==
  /\ AfterOperation
  /\ ~lastOp.is_add
  /\ \E c \in Cells, d \in Cells :
       /\ c \in Range(lastOp.ids)
       /\ nbMat["E1"][c] = 1
       /\ nbMat["E1"][d] = 2
       /\ Cardinality(MaterialsHolding(d, "E1")) = 2

\* The enumeration tree read through the enumeration API, positions in the
\* arenas and partial positions left out: per cell the number of
\* environments and, per environment of the cell, its flavor, its number
\* of materials and the flavor and MatVarIndex array of each of them.
Flavor(node) == IF node.arr = 0 THEN <<0, node.val>> ELSE <<node.arr>>

MatChildrenOf(tr, e, m, envPos) ==
  LET node == tr.envItems[envPos]
  IN {[mat |-> m, flavor |-> Flavor(tr.matItems[e][tr.matPtr[m][z]]),
       level |-> tr.matItems[e][tr.matPtr[m][z]].level] :
        z \in {y \in DOMAIN tr.matPtr[m] :
           /\ tr.matPtr[m][y] \in node.first..(node.first + node.nbSub - 1)
           /\ tr.matItems[e][tr.matPtr[m][y]].super = envPos}}

MatChildren(tr, e, envPos) == UNION {MatChildrenOf(tr, e, m, envPos) : m \in MatsOfEnv(e)}

EnvChildrenOf(tr, c, e) ==
  LET node == tr.allEnvItems[c]
  IN {[env |-> e, flavor |-> Flavor(tr.envItems[tr.envPtr[e][z]]),
       nbSub |-> tr.envItems[tr.envPtr[e][z]].nbSub,
       level |-> tr.envItems[tr.envPtr[e][z]].level,
       mats |-> MatChildren(tr, e, tr.envPtr[e][z])] :
        z \in {y \in DOMAIN tr.envPtr[e] :
           /\ tr.envPtr[e][y] \in node.first..(node.first + node.nbSub - 1)
           /\ tr.envItems[tr.envPtr[e][y]].super = c}}

EnvChildren(tr, c) == UNION {EnvChildrenOf(tr, c, e) : e \in Envs}

TreeView(tr) ==
  [c \in Cells |-> [super |-> tr.allEnvItems[c].super, flavor |-> Flavor(tr.allEnvItems[c]),
                    nbSub |-> tr.allEnvItems[c].nbSub, level |-> tr.allEnvItems[c].level,
                    envs |-> EnvChildren(tr, c)]]

FlavorFromLedger ==
  /\ \A m \in Mats : \A z \in DOMAIN ix[matIndexer[m]] :
       LET ent == ix[matIndexer[m]][z]
       IN IsPure(ent) <=> (nbEnv[ent.lid] = 1 /\ nbMat[trueEnvironment[m]][ent.lid] = 1)
  /\ \A e \in Envs : \A z \in DOMAIN ix[envIndexer[e]] :
       LET ent == ix[envIndexer[e]][z]
       IN IsPure(ent) <=> nbEnv[ent.lid] = 1

\* After an operation, a cell with one environment and two materials: A is
\* partial there and E1 pure, while M is pure in a cell of its own.
FlavorFromLedgerWitness ==
  /\ AfterOperation
  /\ \E c \in Cells, d \in Cells :
       /\ nbEnv[c] = 1 /\ nbMat["E1"][c] = 2
       /\ c \in PartialCells(ix[matIndexer["A"]])
       /\ c \in PureCells(ix[envIndexer["E1"]])
       /\ d \in PureCells(ix[matIndexer["M"]])

\* The indexers of the components other than the material mat and its
\* environment: the other materials and the other environments.
SiblingIndexers(mat) ==
  {matIndexer[m] : m \in Mats \ {mat}} \cup {envIndexer[e] : e \in Envs \ {trueEnvironment[mat]}}

HasCell(x, c) == c \in IndexerCells(x)

\* C4: after {M, C, add} then {M, C, remove}, every sibling indexer has, for
\* every cell of C, the entry (flavor and MatVarIndex) it had before the add,
\* and the ledger has the counts it had before the add.
AddRemoveRoundTrip ==
  rt.phase = "removed" =>
    /\ \A i \in SiblingIndexers(rt.mat), c \in rt.cells :
         /\ HasCell(ix[i], c) = HasCell(rt.pre.ix[i], c)
         /\ HasCell(ix[i], c) => EntryOf(ix[i], c) = EntryOf(rt.pre.ix[i], c)
    /\ nbEnv = rt.pre.nbEnv
    /\ nbMat = rt.pre.nbMat
    /\ cellNbEnvironment = rt.pre.cellNbEnvironment
    /\ cellNbMaterial = rt.pre.cellNbMaterial

\* A round trip on two cells during which a sibling material and a sibling
\* environment went from pure to partial and back.
AddRemoveRoundTripWitness ==
  /\ rt.phase = "removed"
  /\ Cardinality(rt.cells) = 2
  /\ \E i \in LogEvents("copyPartialToGlobal") : log[i].ix = envIndexer["E1"]
  /\ \E i \in LogEvents("copyPartialToGlobal") : log[i].ix = matIndexer["A"]

\* The step is a full recompute that follows a full recompute.
SecondFullRecompute == fullRuns >= 1 /\ fullRuns' >= 1

\* C5: a full recompute that directly follows a full recompute leaves the
\* ledger counts, the entries of every indexer and every node of the
\* enumeration tree as they were.
FullRecomputeIdempotent ==
  [][SecondFullRecompute =>
       /\ nbEnv' = nbEnv
       /\ nbMat' = nbMat
       /\ totalNbCellMat' = totalNbCellMat
       /\ ix' = ix
       /\ tree' = tree]_vars

\* Two full recomputes in a row on a composition with a cell of two
\* environments and a cell of two materials.
FullRecomputeIdempotentWitness ==
  /\ fullRuns = 2
  /\ \E c \in Cells : nbEnv[c] = 2
  /\ \E c \in Cells : nbMat["E1"][c] = 2

\* The step applies the operation {mat, ids, is_add} with cell c among ids.
OperationStep(mat, c, is_add) ==
  /\ ~dirty
  /\ dirty'
  /\ lastOp'.mat = mat
  /\ lastOp'.is_add = is_add
  /\ c \in Range(lastOp'.ids)

\* The hook calls of one kind the variable v received for an indexer.
HookCalls(lg, kind, v, ixId) ==
  {i \in DOMAIN lg : lg[i].kind = kind /\ lg[i].who = v /\ lg[i].ix = ixId}

OnlyMaterialIn(mat, c) == \A m \in Mats : (c \in matCells[m]) = (m = mat)

\* C6: when a cell holds only A and {B, ids, add} with the cell among ids is
\* applied, the cell has afterwards one environment and two materials in
\* E1, A's indexer holds it as partial, and every variable received exactly
\* one copyGlobalToPartial call for A's indexer, which includes the cell.
AddSecondMaterial ==
  [][\A c \in Cells :
       (OnlyMaterialIn("A", c) /\ IsPure(EntryOf(ix[matIndexer["A"]], c))
          /\ OperationStep("B", c, TRUE)) =>
         /\ nbEnv'[c] = 1
         /\ cellNbEnvironment'[c] = 1
         /\ nbMat'["E1"][c] = 2
         /\ cellNbMaterial'["E1"][c] = 2
         /\ c \in PartialCells(ix'[matIndexer["A"]])
         /\ \A v \in FieldVars :
              LET calls == HookCalls(log', "copyGlobalToPartial", v, matIndexer["A"])
              IN /\ Cardinality(calls) = 1
                 /\ \A i \in calls : c \in Range(log'[i].ids)]_vars

\* B was just added to a cell that held A alone as a pure cell.
AddSecondMaterialWitness ==
  /\ dirty
  /\ lastOp.mat = "B"
  /\ lastOp.is_add
  /\ \E c \in Range(lastOp.ids) :
       /\ c \in matCells["A"]
       /\ c \notin matCells["M"]
       /\ nbMat["E1"][c] = 2
       /\ \E i \in HookCalls(log, "copyGlobalToPartial", "u", matIndexer["A"]) :
            c \in Range(log[i].ids)

\* The add of B that the remove in progress matches, with c among its cells.
MatchingAdd(c) == rt.phase = "added" /\ rt.mat = "B" /\ c \in rt.cells

\* C7: when a cell holds A and B and {B, ids, remove} with the cell among
\* ids is applied, A's indexer holds the cell as pure afterwards, every
\* variable received a copyPartialToGlobal call for A's indexer that carries
\* the cell with its old partial position, and the global value of the cell
\* is the one it had before the matching add.
RemoveSecondMaterial ==
  [][\A c \in Cells :
       (c \in matCells["A"] /\ c \in matCells["B"] /\ c \notin matCells["M"]
          /\ OperationStep("B", c, FALSE)) =>
         /\ c \in PureCells(ix'[matIndexer["A"]])
         /\ \A v \in FieldVars :
              \E i \in HookCalls(log', "copyPartialToGlobal", v, matIndexer["A"]) :
                \E k \in DOMAIN log'[i].ids :
                  /\ log'[i].ids[k] = c
                  /\ log'[i].pos[k] = EntryOf(ix[matIndexer["A"]], c).val
         /\ MatchingAdd(c) => \A v \in FieldVars : gval'[v][c] = rt.pre.gval[v][c]]_vars

\* B was removed from a cell of A by the remove that matches its add, a
\* global value of the cells was assigned while A was partial, and the value
\* from before the add, which is not 0, is in the global array.
RemoveSecondMaterialWitness ==
  /\ dirty
  /\ rt.phase = "removed"
  /\ rt.written
  /\ rt.mat = "B"
  /\ \E c \in rt.cells :
       /\ c \in PureCells(ix[matIndexer["A"]])
       /\ gval["u"][c] = 1
       /\ rt.pre.gval["u"][c] = 1
       /\ \E i \in HookCalls(log, "copyPartialToGlobal", "u", matIndexer["A"]) :
            c \in Range(log[i].ids)

\* C8: when a cell is in E1 and not in E2 and a material of E2 is added to
\* it, the cell has two environments afterwards, E1's indexer holds it as
\* partial and received a copyGlobalToPartial call that includes it, and the
\* groups of the materials of E1 are unchanged; when that material is removed
\* from a cell of E1, E1's indexer holds the cell as pure afterwards.
SiblingEnvironmentTransform ==
  [][\A c \in Cells :
       /\ (c \in envCells["E1"] /\ c \notin matCells["M"] /\ OperationStep("M", c, TRUE)) =>
            /\ c \in PureCells(ix[envIndexer["E1"]])
            /\ nbEnv'[c] = 2
            /\ cellNbEnvironment'[c] = 2
            /\ c \in PartialCells(ix'[envIndexer["E1"]])
            /\ \A v \in FieldVars :
                 \E i \in HookCalls(log', "copyGlobalToPartial", v, envIndexer["E1"]) :
                   c \in Range(log'[i].ids)
            /\ \A m \in MatsOfEnv("E1") : matCells'[m] = matCells[m]
       /\ (c \in envCells["E1"] /\ c \in matCells["M"] /\ OperationStep("M", c, FALSE)) =>
            /\ c \in PartialCells(ix[envIndexer["E1"]])
            /\ nbEnv'[c] = 1
            /\ c \in PureCells(ix'[envIndexer["E1"]])
            /\ \A m \in MatsOfEnv("E1") : matCells'[m] = matCells[m]]_vars

\* M was added to a cell of E1 and removed again; E1's indexer holds the cell
\* as pure after a copyPartialToGlobal call.
SiblingEnvironmentTransformWitness ==
  /\ dirty
  /\ rt.phase = "removed"
  /\ rt.mat = "M"
  /\ \E c \in rt.cells :
       /\ c \in PureCells(ix[envIndexer["E1"]])
       /\ c \in PureCells(rt.pre.ix[envIndexer["E1"]])
       /\ \E i \in HookCalls(log, "copyPartialToGlobal", "v", envIndexer["E1"]) :
            c \in Range(log[i].ids)

\* The scans of the other components by the last operation.
Transforms == LogEvents("transformMat") \cup LogEvents("transformEnv")

\* C9: the counts a scan of another component read to take its decisions,
\* the environment count of every cell and, for a material, the material
\* count of every cell in its environment, are the counts the ledger has
\* when the operation is over.
TransformReadsPostOperationLedger ==
  AfterOperation =>
    \A i \in Transforms :
      /\ log[i].rd.nbEnv = nbEnv
      /\ log[i].kind = "transformMat" =>
           log[i].rd.nbMat = cellNbMaterial[trueEnvironment[log[i].who]]

\* An add operation after which a material was scanned with a cell flagged
\* whose counts before the operation would not have flagged it.
TransformReadsPostOperationLedgerWitness ==
  /\ dirty
  /\ rt.phase = "added"
  /\ \E i \in LogEvents("transformMat"), c \in Cells :
       /\ log[i].rd.flags[c]
       /\ rt.pre.nbEnv[c] <= 1
       /\ rt.pre.cellNbMaterial[trueEnvironment[log[i].who]][c] <= 1
       /\ c \in Range(log[i].ids)

\* The flag of cell c for a material of environment env, from the ledger.
MaterialCandidate(c, env, is_add) ==
  IF is_add
  THEN nbEnv[c] > 1 \/ cellNbMaterial[env][c] > 1
  ELSE nbEnv[c] = 1 /\ cellNbMaterial[env][c] = 1

\* The flag of cell c for an environment, from the ledger.
EnvironmentCandidate(c, is_add) ==
  IF is_add THEN nbEnv[c] > 1 ELSE nbEnv[c] = 1

\* C10: the cells an operation flagged for another component are those the
\* ledger designates once the operation is over, whatever the indexer of the
\* component holds: for a material, on add the cells with more than one
\* environment or more than one material in its environment and on remove
\* the cells with one environment and one material in its environment; for
\* an environment, on add the cells with more than one environment and on
\* remove the cells with one environment.
CandidatesFromLedgerOnly ==
  AfterOperation =>
    \A c \in Cells :
      /\ \A i \in LogEvents("transformMat") :
           log[i].rd.flags[c] =
             MaterialCandidate(c, trueEnvironment[log[i].who], lastOp.is_add)
      /\ \A i \in LogEvents("transformEnv") :
           log[i].rd.flags[c] = EnvironmentCandidate(c, lastOp.is_add)

\* A remove operation that flagged, for a material and for an environment,
\* a cell their indexers do not hold, and another cell they hold.
CandidatesFromLedgerOnlyWitness ==
  /\ dirty
  /\ ~lastOp.is_add
  /\ \E i \in LogEvents("transformMat"), c \in Cells :
       /\ log[i].rd.flags[c]
       /\ c \notin IndexerCells(ix[log[i].ix])
  /\ \E i \in LogEvents("transformEnv"), c \in Cells :
       /\ log[i].rd.flags[c]
       /\ c \in Range(log[i].ids)

\* The calls of the Field Migration Hook in a log.
HookEvents(lg) ==
  {k \in DOMAIN lg : lg[k].kind \in {"copyGlobalToPartial", "copyPartialToGlobal"}}

\* The step applies one incremental operation.
OperationApplied == ~dirty /\ dirty'

\* C11: an operation {M, C, isAdd} leaves alone, in the indexer of every
\* other material and other environment, every cell outside C and every cell
\* of C the indexer already held as partial (add) or as pure (remove): the
\* entry keeps its MatVarIndex and no hook call carries the cell.
SiblingFrame ==
  [][OperationApplied =>
       \A i \in SiblingIndexers(lastOp'.mat) :
         \A c \in IndexerCells(ix[i]) :
           (c \notin Range(lastOp'.ids) \/ IsPure(EntryOf(ix[i], c)) # lastOp'.is_add) =>
             /\ HasCell(ix'[i], c)
             /\ EntryOf(ix'[i], c) = EntryOf(ix[i], c)
             /\ \A k \in HookEvents(log') :
                  log'[k].ix = i => c \notin Range(log'[k].ids)]_vars

\* An add operation moved a cell in one indexer while another indexer kept
\* a pure cell outside the operation and a third kept a cell of the
\* operation that was already partial.
SiblingFrameWitness ==
  /\ dirty
  /\ rt.phase = "added"
  /\ HookEvents(log) # {}
  /\ \E i \in SiblingIndexers(rt.mat) : \E c \in Cells \ rt.cells :
       /\ c \in PureCells(rt.pre.ix[i])
       /\ c \in PureCells(ix[i])
  /\ \E i \in SiblingIndexers(rt.mat) : \E c \in rt.cells :
       /\ c \in PartialCells(rt.pre.ix[i])
       /\ HasCell(ix[i], c)
       /\ EntryOf(ix[i], c) = EntryOf(rt.pre.ix[i], c)

NbVariables == Len(visitVariables)

\* The hook calls that follow the scan logged at position k: one per
\* variable, in the order of the registry, with the indexer, the cells and the
\* positions of the scan, in the direction of the operation.
HookCallsFollow(k) ==
  /\ k + NbVariables <= Len(log)
  /\ \A j \in 1..NbVariables :
       log[k + j] = Event(HookKind(lastOp.is_add), visitVariables[j], log[k].ix,
                          log[k].ids, log[k].pos, NoRead)

\* The indexer of the scan logged at position k holds the moved cells in
\* their new flavor: partial at the positions handed to the hook after an
\* add, pure after a remove.
MoveApplied(k) ==
  \A z \in DOMAIN log[k].ids :
    LET c == log[k].ids[z]
    IN /\ HasCell(ix[log[k].ix], c)
       /\ EntryOf(ix[log[k].ix], c) =
            IF lastOp.is_add THEN PartialEntry(c, log[k].ix, log[k].pos[z]) ELSE PureEntry(c)

\* C12: a scan that moved cells is followed at once by one hook call per
\* registered variable with the index of the indexer, the moved cells and
\* their partial positions, copyGlobalToPartial for an add operation and
\* copyPartialToGlobal for a remove operation; the indexer holds the move;
\* a scan that moved nothing is followed by no call, and there is no call of
\* the other direction nor any call that does not follow a scan.
HookFollowsTransform ==
  AfterOperation =>
    /\ \A k \in Transforms :
         IF log[k].ids # <<>>
         THEN HookCallsFollow(k) /\ MoveApplied(k)
         ELSE (k + 1) \notin HookEvents(log)
    /\ \A h \in HookEvents(log) :
         /\ log[h].kind = HookKind(lastOp.is_add)
         /\ \E k \in Transforms : k < h /\ h <= k + NbVariables /\ log[k].ids # <<>>

\* A remove operation with a scan that moved a cell and a scan that moved
\* none.
HookFollowsTransformWitness ==
  /\ dirty
  /\ ~lastOp.is_add
  /\ \E k \in Transforms : log[k].ids # <<>> /\ log[k + 1].kind = "copyPartialToGlobal"
  /\ \E k \in Transforms : log[k].ids = <<>>

\* The environment nodes of cell c in a tree, as <<environment, position>>.
EnvNodesOf(tr, c) ==
  {x \in Envs \X DOMAIN tr.envItems :
     x[2] \in Range(tr.envPtr[x[1]]) /\ tr.envItems[x[2]].super = c}

\* The material nodes below the environment node at envPos, as
\* <<material, position>>.
MatNodesOf(tr, e, envPos) ==
  {y \in MatsOfEnv(e) \X DOMAIN tr.matItems[e] :
     y[2] \in Range(tr.matPtr[y[1]]) /\ tr.matItems[e][y[2]].super = envPos}

\* The nodes of cell c with their links as they are stored: positions in
\* the arenas.
CellNodes(tr, c) ==
  [all |-> tr.allEnvItems[c],
   envs |-> {[env |-> x[1], node |-> tr.envItems[x[2]],
              mats |-> {[mat |-> y[1], node |-> tr.matItems[x[1]][y[2]]] :
                          y \in MatNodesOf(tr, x[1], x[2])}] : x \in EnvNodesOf(tr, c)}]

\* The component of the node a first-child link designates.
FirstEnvironment(tr, c) ==
  {x[1] : x \in {y \in EnvNodesOf(tr, c) : y[2] = tr.allEnvItems[c].first}}

FirstMaterial(tr, e, envPos) ==
  {y[1] : y \in {z \in MatNodesOf(tr, e, envPos) : z[2] = tr.envItems[envPos].first}}

\* What a node carries besides its links.
NodeData(node) == [nbSub |-> node.nbSub, arr |-> node.arr, val |-> node.val, level |-> node.level]

\* The nodes of cell c with their links resolved: a link is the component
\* of the node it designates, a parent is the node the children are listed
\* under.
CellNodesResolved(tr, c) ==
  [all |-> NodeData(tr.allEnvItems[c]),
   noParent |-> tr.allEnvItems[c].super = -1,
   first |-> FirstEnvironment(tr, c),
   envs |-> {[env |-> x[1], node |-> NodeData(tr.envItems[x[2]]),
              first |-> FirstMaterial(tr, x[1], x[2]),
              mats |-> {[mat |-> y[1], node |-> NodeData(tr.matItems[x[1]][y[2]])] :
                          y \in MatNodesOf(tr, x[1], x[2])}] : x \in EnvNodesOf(tr, c)}]

\* A cell the last operation did not name and no scan moved.
Unaffected(c) ==
  /\ c \notin Range(lastOp.ids)
  /\ \A k \in Transforms : c \notin Range(log[k].ids)

\* The step is the recomputeIncremental that follows an operation.
RecomputeAfterOperation == dirty /\ ~dirty' /\ lastOp' # NoOp

EnvChildPositions(tr, c) ==
  IF tr.allEnvItems[c].first = -1 THEN {}
  ELSE tr.allEnvItems[c].first..(tr.allEnvItems[c].first + tr.allEnvItems[c].nbSub - 1)

\* The environments that list position p among their nodes.
EnvironmentsAt(tr, p) == {e \in Envs : p \in Range(tr.envPtr[e])}

\* C14: after a recompute, for every cell c the all-environment node has no
\* parent, MatVarIndex (0, c) and nbEnv[c] children; it has a first child
\* iff nbEnv[c] is not 0; every child is the node of one environment whose
\* group holds c, no two children are of the same environment, and a child
\* has the all-environment node of c as parent, the MatVarIndex of the
\* environment's indexer for c and nbMat[e][c] children.
TreeConsistentWithLedger ==
  ~dirty =>
    \A c \in Cells :
      LET node == tree.allEnvItems[c]
          kids == EnvChildPositions(tree, c)
      IN /\ node.super = -1
         /\ node.arr = 0 /\ node.val = c
         /\ node.nbSub = nbEnv[c]
         /\ (node.first # -1) <=> (nbEnv[c] # 0)
         /\ kids \subseteq DOMAIN tree.envItems
         /\ Cardinality(kids) = nbEnv[c]
         /\ \A p \in kids :
              /\ Cardinality(EnvironmentsAt(tree, p)) = 1
              /\ \A e \in EnvironmentsAt(tree, p) :
                   /\ c \in EnvGroup(State, e)
                   /\ tree.envItems[p].super = c
                   /\ tree.envItems[p].level = LEVEL_ENVIRONMENT
                   /\ tree.envItems[p].arr = EntryOf(ix[envIndexer[e]], c).arr
                   /\ tree.envItems[p].val = EntryOf(ix[envIndexer[e]], c).val
                   /\ tree.envItems[p].nbSub = nbMat[e][c]
         /\ \A p \in kids, q \in kids :
              p # q => EnvironmentsAt(tree, p) \cap EnvironmentsAt(tree, q) = {}

\* After an operation and its recompute, a cell with two environments, one
\* of them with two materials, and a cell with none.
TreeConsistentWithLedgerWitness ==
  /\ ~dirty
  /\ AfterOperation
  /\ \E c \in Cells : nbEnv[c] = 2 /\ nbMat["E1"][c] = 2
                        /\ Cardinality(EnvChildPositions(tree, c)) = 2
  /\ \E c \in Cells : nbEnv[c] = 0 /\ tree.allEnvItems[c].first = -1

(***************************************************************************)
(* Check mode and the coherency checkers.                                  *)
(***************************************************************************)
\* The ledger, the connectivity list, the groups, the indexers and the
\* values of the variables.
ComponentData ==
  <<matCells, envCells, nbEnv, nbMat, totalNbCellMat, cellNbEnvironment, cellNbMaterial,
    ix, gval, pval>>

UpdateAsked == nbUpdates' # nbUpdates

\* C15: in check mode both updateMaterialDirect and updateMaterialIncremental
\* run the pre-filter of the operation before they modify anything: a step
\* that ends in the fatal error of the filter leaves the ledger, the groups,
\* the indexers, the values and the nodes as they were, an operation that is
\* applied breaks the precondition in no cell, and an update asked for is
\* either applied or fatal.
FilterBeforeApply ==
  [][/\ (report'.kind = "fatal" /\ report'.what = "filterIds" /\ report.kind # "fatal")
          => (isCheck /\ UNCHANGED <<ComponentData, tree, dirty, lastOp>>)
     /\ (isCheck /\ OperationApplied)
          => filterIds(State, lastOp'.mat, lastOp'.ids, lastOp'.is_add) = <<>>
     /\ UpdateAsked => (OperationApplied \/ report'.kind = "fatal")]_vars

\* In check mode, with a material in place, updateMaterialDirect was asked
\* for an operation that breaks the precondition and raised the fatal error.
FilterBeforeApplyWitness ==
  /\ isCheck
  /\ report.kind = "fatal"
  /\ report.what = "filterIds"
  /\ report.errors[1].what = "updateMaterialDirect"
  /\ \E m \in Mats : matCells[m] # {}
  /\ ~dirty

\* The differences the connectivity checker looks for, each with its place
\* in the scan: the comparison (1 the environments of a cell, 2 the
\* materials of a cell, 3 the materials of a cell in an environment), the
\* environment and the cell.
ConnectivityDifferences ==
  {[what |-> "nb_environment", env |-> "", cell |-> c, ref |-> nbEnv[c],
    current |-> cellNbEnvironment[c]] : c \in {d \in DOMAIN nbEnv : nbEnv[d] # cellNbEnvironment[d]}}
  \cup
  {[what |-> "nb_material", env |-> "", cell |-> c, ref |-> NbMatOfCells(nbMat)[c],
    current |-> NbMatOfCells(cellNbMaterial)[c]] :
     c \in {d \in DOMAIN nbEnv : NbMatOfCells(nbMat)[d] # NbMatOfCells(cellNbMaterial)[d]}}
  \cup
  UNION {{[what |-> "nb_material environment", env |-> e, cell |-> c, ref |-> nbMat[e][c],
           current |-> cellNbMaterial[e][c]] :
            c \in {d \in DOMAIN nbEnv : nbMat[e][d] # cellNbMaterial[e][d]}} : e \in Envs}

ScanRank(m) ==
  LET comparison == IF m.what = "nb_environment" THEN 1
                    ELSE IF m.what = "nb_material" THEN 2 ELSE 3
      env == IF m.env = "" THEN 0
             ELSE CHOOSE i \in DOMAIN trueEnvironments : trueEnvironments[i] = m.env
  IN (comparison * 10 + env) * 10 + m.cell

\* C16: the connectivity checker scans every cell for its three comparisons
\* and then raises one fatal error exactly when a count differs; the error
\* carries the number of all differences, and the differences reported one
\* by one are the first of the scan, fewer than the limit; with no
\* difference it returns normally.
OneAggregatedFatal ==
  report.kind # "none" =>
    /\ report.what = "connectivity"
    /\ (report.kind = "fatal") = (ConnectivityDifferences # {})
    /\ report.nb_error = Card(ConnectivityDifferences)
    /\ Len(report.errors) = IF report.nb_error < ErrorReportLimit
                            THEN report.nb_error ELSE ErrorReportLimit - 1
    /\ \A i \in DOMAIN report.errors :
         /\ report.errors[i] \in ConnectivityDifferences
         /\ Card({m \in ConnectivityDifferences :
                    ScanRank(m) < ScanRank(report.errors[i])}) = i - 1

\* The checker found more differences than it reports one by one.
OneAggregatedFatalWitness ==
  /\ report.kind = "fatal"
  /\ report.nb_error > Len(report.errors)
  /\ Len(report.errors) = ErrorReportLimit - 1

\* C17: the coherency checkers only read.  recomputeIncremental rebuilds the
\* nodes and then runs them (the local ids in check mode, the connectivity
\* always): whether they return normally or raise the fatal error, the
\* ledger, the connectivity list, the groups, the indexers and the values
\* are those before the step and the nodes are those the rebuild made.
CheckersOnlyRead ==
  [][RecomputeAfterOperation =>
       /\ report'.what \in {"connectivity", "localIds"}
       /\ UNCHANGED ComponentData
       /\ tree' = _computeInfosForEnvCells(State)]_vars

\* In check mode the local ids were found coherent and the connectivity
\* checker raised its fatal error, with entries in the indexers.
CheckersOnlyReadWitness ==
  /\ isCheck
  /\ report.kind = "fatal"
  /\ report.what = "connectivity"
  /\ \E i \in Indexers : ix[i] # <<>>
  /\ ~dirty

(***************************************************************************)
(* The arenas of the nodes.                                                *)
(***************************************************************************)
\* The positions of the arenas: the AllEnvCell, the EnvCell and, per
\* environment, the MatCell nodes.
ArenaBounds ==
  <<DOMAIN tree.allEnvItems, DOMAIN tree.envItems, [e \in Envs |-> DOMAIN tree.matItems[e]]>>

\* The step is neither forceRecompute(true) nor a step of the client.
IncrementalStep == lastOp' # NoOp /\ (OperationApplied \/ RecomputeAfterOperation)

ArenasExact ==
  /\ DOMAIN tree.allEnvItems = Cells
  /\ DOMAIN tree.envItems = 0..(SumOver(nbEnv, Cells) - 1)
  /\ \A p \in DOMAIN tree.envItems : tree.envItems[p].level = LEVEL_ENVIRONMENT
  /\ \A e \in Envs :
       /\ Range(tree.envPtr[e]) \subseteq DOMAIN tree.envItems
       /\ DOMAIN tree.matItems[e] = 0..(totalNbCellMat[e] - 1)
       /\ \A p \in DOMAIN tree.matItems[e] : tree.matItems[e][p].level = LEVEL_MATERIAL
  /\ \A m \in Mats : Range(tree.matPtr[m]) \subseteq DOMAIN tree.matItems[trueEnvironment[m]]

PartialEntries(i) == {z \in DOMAIN ix[i] : ~IsPure(ix[i][z])}

PositionsDistinct(i) ==
  \A y \in PartialEntries(i), z \in PartialEntries(i) :
    ix[i][y].val = ix[i][z].val => y = z

PositionsCompact(i) ==
  PartialPositions(ix[i]) = 0..(Cardinality(PartialEntries(i)) - 1)

PositionsKept ==
  \A i \in Indexers :
    \A c \in PartialCells(ix[i]) \cap PartialCells(ix'[i]) :
      EntryOf(ix'[i], c).val = EntryOf(ix[i], c).val

EnvironmentCountChange(mat, C, is_add, c) ==
  LET E == trueEnvironment[mat]
  IN IF c \notin C THEN 0
     ELSE IF nbMaterial(E) = 1 THEN (IF is_add THEN 1 ELSE -1)
     ELSE IF is_add /\ nbMat[E][c] = 0 THEN 1
     ELSE IF ~is_add /\ nbMat[E][c] = 1 THEN -1
     ELSE 0

\* C20: an operation on a material of an environment with several
\* materials adds 1 to the number of environments of a cell of C exactly
\* when the environment had no material there (add), takes 1 away exactly
\* when it had one (remove), and leaves the other cells of C and the cells
\* outside C as they were; for an environment with one material every cell
\* of C changes by 1.
EnvironmentCountFollowsMembership ==
  [][OperationApplied =>
       \A c \in Cells :
         nbEnv'[c] = nbEnv[c] + EnvironmentCountChange(lastOp'.mat, Range(lastOp'.ids),
                                                       lastOp'.is_add, c)]_vars

\* An add operation on a material of E1 in both cells changed the number of
\* environments of one cell only: the other one already had a material of E1.
EnvironmentCountFollowsMembershipWitness ==
  /\ dirty
  /\ lastOp.is_add
  /\ trueEnvironment[lastOp.mat] = "E1"
  /\ Range(lastOp.ids) = Cells
  /\ \E c \in Cells : nbMat["E1"][c] = 2
  /\ \E k \in LogEvents("nbEnv") : Len(log[k].ids) = 1

(***************************************************************************)
(* The cells of an operation in which the environment stays.               *)
(***************************************************************************)
\* Before the operation {mat, C, is_add}, c is a cell of C in which the
\* environment of mat, which has several materials, neither comes nor goes.
UnchangedInEnvironment(mat, C, is_add, c) ==
  LET E == trueEnvironment[mat]
  IN /\ nbMaterial(E) # 1
     /\ c \in C
     /\ nbMat[E][c] # (IF is_add THEN 0 ELSE 1)

\* The step leaves the entry of cell c in indexer i as it was and hands c
\* to no hook call for that indexer.
EntryUntouched(i, c) ==
  /\ HasCell(ix[i], c) = HasCell(ix'[i], c)
  /\ HasCell(ix[i], c) => EntryOf(ix'[i], c) = EntryOf(ix[i], c)
  /\ \A k \in HookEvents(log') : log'[k].ix = i => c \notin Range(log'[k].ids)

OtherEnvironmentIndexers(mat) ==
  {envIndexer[e] : e \in Envs}
  \cup {matIndexer[m] : m \in {n \in Mats : trueEnvironment[n] # trueEnvironment[mat]}}

TheEvent(kind) ==
  IF Cardinality(LogEvents(kind)) = 1 THEN CHOOSE k \in LogEvents(kind) : TRUE ELSE 0

\* C22: within an operation the connectivity list is updated for the
\* environment, on the cells where the environment comes or goes, then for
\* the material, on all the cells of the operation, then the environment
\* count of the cells is adjusted, each once, and the three come before
\* every scan of another material or environment.
LedgerEnvironmentFirst ==
  AfterOperation =>
    /\ TheEvent("connEnv") # 0
    /\ TheEvent("connMat") # 0
    /\ TheEvent("nbEnv") # 0
    /\ TheEvent("connEnv") < TheEvent("connMat")
    /\ TheEvent("connMat") < TheEvent("nbEnv")
    /\ \A k \in Transforms : TheEvent("nbEnv") < k
    /\ log[TheEvent("connEnv")].who = trueEnvironment[lastOp.mat]
    /\ log[TheEvent("connMat")].who = lastOp.mat
    /\ log[TheEvent("connMat")].ids = lastOp.ids
    /\ log[TheEvent("connEnv")].ids = log[TheEvent("nbEnv")].ids

\* An operation on two cells, in one of which the environment stayed, with
\* a scan that moved a cell.
LedgerEnvironmentFirstWitness ==
  /\ dirty
  /\ Len(lastOp.ids) = 2
  /\ Len(log[TheEvent("connEnv")].ids) = 1
  /\ \E k \in Transforms : log[k].ids # <<>>

\* The steps on the group and the indexer of the modified material and of
\* its environment for the cells where the environment comes or goes: they
\* are logged after the environment count is adjusted.
ChangedSubsetSteps ==
  {k \in DOMAIN log :
     /\ k > TheEvent("nbEnv")
     /\ log[k].kind \in {"matGroup", "envGroup", "indexerAdd", "indexerRemove"}}

\* The scan a hook call belongs to: the last one logged before the call.
ScanOf(h) ==
  IF \E t \in Transforms : t < h
  THEN CHOOSE t \in Transforms : t < h /\ \A u \in Transforms : u < h => u <= t
  ELSE 0

\* C23: in an operation every scan of another material comes before every
\* scan of another environment, every hook call follows the scan whose
\* moved cells it copies, and the cells where the environment comes or goes
\* enter or leave the group and the indexer of the modified material, and
\* of its environment when it has several materials, after all the scans
\* and hook calls.
ScansBeforeOwnGroups ==
  AfterOperation =>
    LET env == trueEnvironment[lastOp.mat]
        need_update_env == nbMaterial(env) # 1
        ids == log[TheEvent("nbEnv")].ids
        indexerKind == IF lastOp.is_add THEN "indexerAdd" ELSE "indexerRemove"
    IN /\ \A i \in LogEvents("transformMat") : \A j \in LogEvents("transformEnv") : i < j
       /\ \A h \in HookEvents(log) :
            /\ ScanOf(h) # 0
            /\ log[h].ix = log[ScanOf(h)].ix
            /\ log[h].ids = log[ScanOf(h)].ids
            /\ log[h].pos = log[ScanOf(h)].pos
       /\ \A k \in Transforms \cup HookEvents(log) : \A g \in ChangedSubsetSteps : k < g
       /\ \E g \in ChangedSubsetSteps :
            log[g].kind = "matGroup" /\ log[g].who = lastOp.mat /\ log[g].ids = ids
       /\ \E g \in ChangedSubsetSteps :
            log[g].kind = indexerKind /\ log[g].ix = matIndexer[lastOp.mat] /\ log[g].ids = ids
       /\ need_update_env <=>
            \E g \in ChangedSubsetSteps :
              log[g].kind = "envGroup" /\ log[g].who = env /\ log[g].ids = ids
       /\ need_update_env =>
            \E g \in ChangedSubsetSteps :
              log[g].kind = indexerKind /\ log[g].ix = envIndexer[env] /\ log[g].ids = ids
       /\ Cardinality({g \in ChangedSubsetSteps : log[g].kind = indexerKind}) =
            (IF need_update_env THEN 2 ELSE 1)
       /\ \A g \in ChangedSubsetSteps : log[g].ids = ids

\* An operation in which a scan of a material and a scan of an environment
\* both moved a cell, with hook calls, before the cells entered the group
\* of the modified material.
ScansBeforeOwnGroupsWitness ==
  /\ dirty
  /\ \E i \in LogEvents("transformMat") : log[i].ids # <<>>
  /\ \E j \in LogEvents("transformEnv") : log[j].ids # <<>>
  /\ \E h \in HookEvents(log) : log[ScanOf(h)].kind = "transformEnv"
  /\ \E g \in ChangedSubsetSteps : log[g].ids # <<>>

\* The scans of the last operation that were given the indexer ixId.
ScansOf(kind, who, ixId) ==
  {k \in LogEvents(kind) : log[k].who = who /\ log[k].ix = ixId}

\* C24: in an operation on material M no scan of a material is given M or
\* its indexer, no scan of an environment is given the environment of M or
\* its indexer, and every other material and every other environment is
\* scanned exactly once, with its own indexer.
ModifiedComponentNotScanned ==
  AfterOperation =>
    LET env == trueEnvironment[lastOp.mat]
    IN /\ \A k \in LogEvents("transformMat") :
            log[k].who # lastOp.mat /\ log[k].ix # matIndexer[lastOp.mat]
       /\ \A k \in LogEvents("transformEnv") :
            log[k].who # env /\ log[k].ix # envIndexer[env]
       /\ \A m \in Mats \ {lastOp.mat} :
            /\ Cardinality(ScansOf("transformMat", m, matIndexer[m])) = 1
            /\ Cardinality({k \in LogEvents("transformMat") : log[k].who = m}) = 1
       /\ \A e \in Envs \ {env} :
            /\ Cardinality(ScansOf("transformEnv", e, envIndexer[e])) = 1
            /\ Cardinality({k \in LogEvents("transformEnv") : log[k].who = e}) = 1

\* An operation on B in a cell that the scan of A, of the same environment,
\* moved, B being in the cell afterwards.
ModifiedComponentNotScannedWitness ==
  /\ dirty
  /\ lastOp.mat = "B"
  /\ lastOp.is_add
  /\ \E k \in ScansOf("transformMat", "A", matIndexer["A"]) :
       \E c \in Range(log[k].ids) : c \in matCells["B"]
  /\ ScansOf("transformMat", "M", matIndexer["M"]) # {}
  /\ ScansOf("transformEnv", "E2", envIndexer["E2"]) # {}

(***************************************************************************)
(* The group and the indexer of the environment of the modified material.  *)
(***************************************************************************)
\* The number of times the steps of a kind of the last operation, on the
\* indexer ixId (-1 for a group), name the cell c.
Occurrences(kinds, ixId, c) ==
  Cardinality({p \in UNION {{<<k, i>> : i \in DOMAIN log[k].ids} :
                               k \in {j \in DOMAIN log : log[j].kind \in kinds /\ log[j].ix = ixId}} :
                 log[p[1]].ids[p[2]] = c})

IndexerSteps == {"indexerAdd", "indexerRemove"}

\* The environment of the modified material came to the cell (add) or left
\* it (remove) in the last operation.
MembershipChanged(c) ==
  /\ c \in Range(lastOp.ids)
  /\ nbMat[trueEnvironment[lastOp.mat]][c] = (IF lastOp.is_add THEN 1 ELSE 0)

\* C25: an operation on the material of an environment with one material
\* updates no environment group and names every cell of C exactly once,
\* and no other cell, in the steps on the indexer the two share; an
\* operation on a material of an environment with several materials names
\* in the steps on the group and on the indexer of the environment exactly
\* once the cells of C where the environment came or left, and no other.
EnvironmentUpdatedWhereItChanges ==
  AfterOperation =>
    LET env == trueEnvironment[lastOp.mat]
    IN /\ \A k \in LogEvents("envGroup") : log[k].who = env
       /\ \A c \in Cells :
            Occurrences(IndexerSteps, matIndexer[lastOp.mat], c) =
              (IF c \in Range(lastOp.ids) THEN 1 ELSE 0)
       /\ nbMaterial(env) = 1 =>
            /\ LogEvents("envGroup") = {}
            /\ \A k \in LogEvents("indexerAdd") \cup LogEvents("indexerRemove") :
                 log[k].ix = matIndexer[lastOp.mat]
       /\ nbMaterial(env) # 1 =>
            \A c \in Cells :
              /\ Occurrences({"envGroup"}, -1, c) = (IF MembershipChanged(c) THEN 1 ELSE 0)
              /\ Occurrences(IndexerSteps, envIndexer[env], c) =
                   (IF MembershipChanged(c) THEN 1 ELSE 0)

\* An operation on a material of E1 on two cells, the environment coming
\* or leaving in one only.
EnvironmentUpdatedWhereItChangesWitness ==
  /\ dirty
  /\ nbMaterial(trueEnvironment[lastOp.mat]) # 1
  /\ Len(lastOp.ids) = 2
  /\ \E c \in Cells : MembershipChanged(c)
  /\ \E c \in Cells : ~MembershipChanged(c)

(***************************************************************************)
(* The full recompute.                                                     *)
(***************************************************************************)
\* The environments whose cell group holds the cell.
EnvironmentsOfCell(c) == {e \in Envs : c \in EnvGroup(State, e)}

\* C26: after forceRecompute(true) the environment count of every cell is
\* the number of environments whose cell group holds the cell, whatever
\* the counts were before.
EnvironmentCountRecounted ==
  fullRuns > 0 => \A c \in Cells : nbEnv[c] = Cardinality(EnvironmentsOfCell(c))

\* The counts the last full recompute found and reset.
CountsBeforeRecompute == log[TheEvent("nbEnvFill")].rd.nbEnv

\* A full recompute was done on counts that were 2 for a cell no group
\* holds any more and 0 for a cell that both environments hold now.
EnvironmentCountRecountedWitness ==
  /\ fullRuns = 1
  /\ TheEvent("nbEnvFill") # 0
  /\ \E c \in Cells : CountsBeforeRecompute[c] = 2 /\ nbEnv[c] = 0
  /\ \E c \in Cells : CountsBeforeRecompute[c] = 0 /\ nbEnv[c] = 2

\* The entries of an indexer for the cell c.
EntriesOf(x, c) == {z \in DOMAIN x : x[z].lid = c}

\* C27: after a full recompute the indexer of every environment holds
\* every cell of the group of the environment exactly once and no other
\* cell, as a partial cell when more than one environment holds the cell
\* now and as a pure cell otherwise, whatever the counts were before.
EnvironmentsClassifiedFromFreshCounts ==
  fullRuns > 0 =>
    \A e \in Envs : \A c \in Cells :
      LET x == ix[envIndexer[e]]
      IN /\ Cardinality(EntriesOf(x, c)) = (IF c \in EnvGroup(State, e) THEN 1 ELSE 0)
         /\ c \in EnvGroup(State, e) =>
              /\ Cardinality(EnvironmentsOfCell(c)) > 1 => EntryOf(x, c).arr = envIndexer[e] + 1
              /\ Cardinality(EnvironmentsOfCell(c)) <= 1 => EntryOf(x, c) = PureEntry(c)

\* A full recompute made partial, in the indexer of E1, a cell whose count
\* was 1 before, and pure a cell whose count was 2 before.
EnvironmentsClassifiedFromFreshCountsWitness ==
  /\ fullRuns = 1
  /\ TheEvent("nbEnvFill") # 0
  /\ \E c \in PartialCells(ix[envIndexer["E1"]]) : CountsBeforeRecompute[c] = 1
  /\ \E c \in PureCells(ix[envIndexer["E1"]]) : CountsBeforeRecompute[c] = 2

(***************************************************************************)
(* The verifications and the check mode.                                   *)
(***************************************************************************)
\* The step is a recompute, incremental or full.
RecomputeStep == (dirty /\ ~dirty') \/ fullRuns' > fullRuns

\* C28: a recompute done with the check mode disabled, full or
\* incremental, runs no verification: it leaves no outcome of a scan,
\* passed or fatal.
NoVerificationWithoutCheckMode ==
  [][(RecomputeStep /\ ~isCheck) => report' = NoReport]_vars

\* C29: under valid incremental operations the counts of the engine and
\* those of the connectivity list are equal, for every cell the number of
\* environments and for every cell and environment the number of
\* materials, after every operation, and the verification that
\* recomputeIncremental runs passes.
LedgersNeverDiverge ==
  /\ \A c \in Cells :
       /\ nbEnv[c] = cellNbEnvironment[c]
       /\ \A e \in Envs : nbMat[e][c] = cellNbMaterial[e][c]
  /\ report.kind # "fatal"
  /\ (AfterOperation /\ ~dirty) => report = Passed("connectivity")

\* The verification passed after a remove operation that left a cell with
\* two environments and another material of E1.
LedgersNeverDivergeWitness ==
  /\ ~dirty
  /\ AfterOperation
  /\ ~lastOp.is_add
  /\ report = Passed("connectivity")
  /\ \E c \in Range(lastOp.ids) :
       /\ cellNbEnvironment[c] = 2
       /\ nbMat[trueEnvironment[lastOp.mat]][c] = 1

\* The environments that have a material in the cell.
EnvironmentsWithMaterial(c) == {e \in Envs : nbMat[e][c] >= 1}

\* C30: after every operation and every recompute the environment count
\* of a cell is the number of environments that have at least one
\* material in it, and the cell is in the group of an environment exactly
\* when the environment has at least one material in it.
EnvironmentPresentIffMaterial ==
  \A c \in Cells :
    /\ nbEnv[c] = Cardinality(EnvironmentsWithMaterial(c))
    /\ \A e \in Envs : (c \in EnvGroup(State, e)) <=> (nbMat[e][c] >= 1)

\* After a remove operation a cell of the operation has lost E1 and keeps
\* E2, another cell of the operation keeps E1 through its other material.
EnvironmentPresentIffMaterialWitness ==
  /\ AfterOperation
  /\ ~lastOp.is_add
  /\ trueEnvironment[lastOp.mat] = "E1"
  /\ \E c \in Range(lastOp.ids) : EnvironmentsWithMaterial(c) = {"E2"}
  /\ \E c \in Range(lastOp.ids) : "E1" \in EnvironmentsWithMaterial(c)

(***************************************************************************)
(* The scan of the cells of an operation on a multi-material environment.  *)
(***************************************************************************)
\* The two material counts of the cell in the environment differ.
CountsDiffer(e, c) == cellNbMaterial[e][c] # nbMat[e][c]

\* The step applied an operation through the incremental modifier.
IncrementalApplied == OperationApplied /\ LogEvents("connEnv")' # {}

\* C31: an incremental operation on a material of a multi-material
\* environment that meets, among its cells, one whose material count in the
\* connectivity list differs from the counter of the environment ends in a
\* fatal error and leaves the groups, the counters, the connectivity list,
\* the indexers, the values and the nodes as they were; an operation that
\* is applied met no such cell.
IncoherentCountStopsOperation ==
  [][/\ (report'.kind = "fatal" /\ report'.what = "nbMaterial" /\ report.kind # "fatal")
          => /\ UNCHANGED <<ComponentData, tree, dirty, lastOp, log>>
             /\ \E e \in MultiEnvs : \E c \in Cells : CountsDiffer(e, c)
     /\ (IncrementalApplied /\ trueEnvironment[lastOp'.mat] \in MultiEnvs)
          => \A c \in Range(lastOp'.ids) : ~CountsDiffer(trueEnvironment[lastOp'.mat], c)]_vars

\* The fatal error of the scan was raised with a material of E1 in place
\* and the two counts of E1 different in a cell.
IncoherentCountStopsOperationWitness ==
  /\ report.kind = "fatal"
  /\ report.what = "nbMaterial"
  /\ \E c \in Cells : CountsDiffer("E1", c) /\ nbMat["E1"][c] >= 1
  /\ \E m \in MatsOfEnv("E1") : matCells[m] # {}

(***************************************************************************)
(* The direct update and the incremental one.                              *)
(***************************************************************************)
\* The steps of a kind in a log.
StepsOf(lg, kinds) == {k \in DOMAIN lg : lg[k].kind \in kinds}

\* The cells where the environment comes or goes, as the update counted
\* them: those of the step on m_nb_env_per_cell.
ChangedOf(lg) == {lg[k].ids : k \in StepsOf(lg, {"nbEnv"})}

\* The steps on the group of the material, in order: the cells where the
\* environment stays, for a multi-material environment, then the others.
MaterialGroupStepsOf(lg) ==
  SelectSeq([k \in DOMAIN lg |-> IF lg[k].kind = "matGroup" THEN lg[k].ids ELSE <<-1>>],
            LAMBDA x : x # <<-1>>)

\* The scans asked for, each with its level and its component, and the
\* hooks called.
ScansAsked(lg) == {<<lg[k].kind, lg[k].who>> : k \in StepsOf(lg, {"transformMat", "transformEnv"})}

HooksCalled(lg) == {lg[k].kind : k \in HookEvents(lg)}

\* The two updates of one operation leave the same environment counts and
\* groups, split the cells alike and scan the same components in the same
\* direction.
SameOutcome(mat, ids, is_add) ==
  LET a == apply(State, mat, ids, is_add)
      d == _updateMaterialDirect(State, mat, ids, is_add)
  IN /\ ChangedOf(a.log) = ChangedOf(d.log)
     /\ MaterialGroupStepsOf(a.log) = MaterialGroupStepsOf(d.log)
     /\ a.nbEnv = d.nbEnv
     /\ a.matCells = d.matCells
     /\ a.envCells = d.envCells
     /\ ScansAsked(a.log) = ScansAsked(d.log)
     /\ HooksCalled(a.log) \subseteq {HookKind(is_add)}
     /\ HooksCalled(d.log) \subseteq {HookKind(is_add)}

\* C32: from a state where the counters and the connectivity list agree,
\* _updateMaterialDirect and the incremental modifier, given the same valid
\* operation, split its cells into the same two subsets, leave the same
\* environment count in every cell and the same groups of materials and
\* environments, and scan the other components in the same direction.
DirectEqualsIncremental ==
  ~dirty =>
    \A mat \in Mats : \A ids \in IdArrays : \A is_add \in BOOLEAN :
      ValidOperation(mat, ids, is_add) => SameOutcome(mat, ids, is_add)

\* A state with A alone in a cell and M alone in the other: adding B to
\* both splits the cells in two subsets, and the two updates agree on it.
DirectEqualsIncrementalWitness ==
  /\ ~dirty
  /\ \E c \in Cells : \E d \in Cells :
       /\ {m \in Mats : c \in matCells[m]} = {"A"}
       /\ {m \in Mats : d \in matCells[m]} = {"M"}
       /\ ChangedOf(apply(State, "B", <<c, d>>, TRUE).log) = {<<d>>}
       /\ ChangedOf(_updateMaterialDirect(State, "B", <<c, d>>, TRUE).log) = {<<d>>}
       /\ SameOutcome("B", <<c, d>>, TRUE)

(***************************************************************************)
(* The positions of the environment nodes.                                 *)
(***************************************************************************)
\* The positions kept for the environment nodes of the cell.
Block(c) == env_cell_indexes(State)[c]..(env_cell_indexes(State)[c] + nbEnv[c] - 1)

\* The nodes set by the last recompute: the environment, the rank in its
\* indexer, the cell and the position.
EnvironmentNodesSet ==
  UNION {{[env |-> e, z |-> z, cell |-> ix[envIndexer[e]][z].lid, pos |-> tree.envPtr[e][z]] :
            z \in DOMAIN tree.envPtr[e]} : e \in Envs}

\* C33: after every recompute, full or incremental, the arena of the
\* environment nodes has as many positions as the groups of the
\* environments have cells, which is the sum of the environment counts of
\* the cells; the blocks of the cells are disjoint and fill the arena;
\* every node set is at a position of the block of its cell, and every
\* position of the arena is set exactly once.
EnvironmentNodesFillArena ==
  ~dirty =>
    /\ Cardinality(DOMAIN tree.envItems) = SumOver([e \in Envs |-> Card(EnvGroup(State, e))], Envs)
    /\ Cardinality(DOMAIN tree.envItems) = SumOver(nbEnv, Cells)
    /\ \A c \in Cells : \A d \in Cells \ {c} : Block(c) \cap Block(d) = {}
    /\ UNION {Block(c) : c \in Cells} = DOMAIN tree.envItems
    /\ \A e \in Envs : DOMAIN tree.envPtr[e] = DOMAIN ix[envIndexer[e]]
    /\ \A n \in EnvironmentNodesSet : n.pos \in Block(n.cell)
    /\ \A p \in DOMAIN tree.envItems :
         Cardinality({n \in EnvironmentNodesSet : n.pos = p}) = 1

\* After an incremental recompute one cell has two environments and the
\* other one: three nodes at three positions.
EnvironmentNodesFillArenaWitness ==
  /\ ~dirty
  /\ AfterOperation
  /\ \E c \in Cells : nbEnv[c] = 2
  /\ \E c \in Cells : nbEnv[c] = 1
  /\ {n.pos : n \in EnvironmentNodesSet} = {0, 1, 2}

(***************************************************************************)
(* The hook calls of one operation.                                        *)
(***************************************************************************)
\* The number of times the hook calls of the last operation for the
\* variable v and the indexer ixId name the cell c.
Migrations(v, ixId, c) ==
  Cardinality({p \in UNION {{<<k, i>> : i \in DOMAIN log[k].ids} :
                               k \in {j \in HookEvents(log) :
                                        log[j].who = v /\ log[j].ix = ixId}} :
                 log[p[1]].ids[p[2]] = c})

\* The scans of the last operation that were given the indexer.
ScansOfIndexer(ixId) == {k \in Transforms : log[k].ix = ixId}

\* C34: in one operation the hook is called at most once for a variable,
\* an indexer and a cell, also for the indexer that a mono-material
\* environment shares with its material and that both levels scan; no
\* hook call is made with no cell, and none for an indexer in which no
\* scan moved a cell.
MigratedAtMostOnce ==
  AfterOperation =>
    /\ \A v \in FieldVars : \A i \in Indexers : \A c \in Cells : Migrations(v, i, c) <= 1
    /\ \A h \in HookEvents(log) : log[h].ids # <<>>
    /\ \A i \in Indexers :
         (\A k \in ScansOfIndexer(i) : log[k].ids = <<>>)
           => \A h \in HookEvents(log) : log[h].ix # i

\* An operation on a material of E1 in which the indexer that E2 shares
\* with M was scanned at both levels: the first scan moved a cell, with
\* one hook call per variable, the second found nothing to move.
MigratedAtMostOnceWitness ==
  /\ AfterOperation
  /\ trueEnvironment[lastOp.mat] = "E1"
  /\ matIndexer["M"] = envIndexer["E2"]
  /\ \E k \in ScansOfIndexer(matIndexer["M"]) : log[k].kind = "transformMat" /\ log[k].ids # <<>>
  /\ \E k \in ScansOfIndexer(matIndexer["M"]) : log[k].kind = "transformEnv" /\ log[k].ids = <<>>
  /\ \E c \in Cells : \A v \in FieldVars : Migrations(v, matIndexer["M"], c) = 1

(***************************************************************************)
(* The running total of an environment.                                    *)
(***************************************************************************)
\* The sum over the cells of the material counters of the environment.
SumNbMat(e) == SumOver(nbMat[e], Cells)

\* The change an operation on k cells makes to a total.
SignedNbCells(op) == IF op.is_add THEN Len(op.ids) ELSE 0 - Len(op.ids)

\* C35: under valid incremental operations the running total of every
\* environment equals the sum over the cells of its material counters,
\* and an operation that adds k cells raises both by k, one that removes
\* k cells lowers both by k, those of the other environments unchanged.
TotalFollowsCounters ==
  /\ [](\A e \in Envs : totalNbCellMat[e] = SumNbMat(e))
  /\ [][OperationApplied =>
         \A e \in Envs :
           LET k == IF e = trueEnvironment[lastOp'.mat] THEN SignedNbCells(lastOp') ELSE 0
           IN /\ totalNbCellMat'[e] = totalNbCellMat[e] + k
              /\ SumNbMat(e)' = SumNbMat(e) + k]_vars

\* After an add of two cells to an environment that had one cell with
\* another material, the total is three, as is the sum of the counters.
TotalFollowsCountersWitness ==
  /\ AfterOperation
  /\ lastOp.is_add
  /\ Len(lastOp.ids) = 2
  /\ totalNbCellMat[trueEnvironment[lastOp.mat]] = 3
  /\ SumNbMat(trueEnvironment[lastOp.mat]) = 3
  /\ \E c \in Cells : nbMat[trueEnvironment[lastOp.mat]][c] = 2

(***************************************************************************)
(* The memory pool.                                                        *)
(***************************************************************************)
\* A step that is a call of the pool.
PoolCall(op) == pool'.nb_calls # pool.nb_calls /\ pool'.last.op = op

\* C36: for blocks not larger than the threshold, after any calls of
\* allocateMemory and freeMemory no pointer is in the allocated map and
\* in the free map; the pointer that allocateMemory returns was not in
\* the allocated map and is in it afterwards, with the size asked; and
\* when the free map has a block of the size asked, allocateMemory
\* returns one of them, takes it out of the free map and does not call
\* the underlying allocator.
PooledBlocksReused ==
  /\ [](~pool.bypassed => DOMAIN pool.allocated \cap FreePointers(pool) = {})
  /\ [][\A size \in PooledSizes :
          (PoolCall("allocateMemory") /\ pool'.last.size = size) =>
            LET ptr == pool'.last.returned
            IN /\ ~HasThrown(pool') =>
                    /\ ptr \in Pointers \ DOMAIN pool.allocated
                    /\ ptr \in DOMAIN pool'.allocated
                    /\ pool'.allocated[ptr] = size
                    /\ pool'.total_allocated = pool.total_allocated + size
               /\ (~pool.bypassed /\ FreeOfSize(pool, size) # {}) =>
                    /\ ~HasThrown(pool')
                    /\ ptr \in FreeOfSize(pool, size)
                    /\ pool'.free[size][ptr] = pool.free[size][ptr] - 1
                    /\ pool'.total_free = pool.total_free - size
                    /\ ~pool'.last.from_allocator
                    /\ pool'.heap = pool.heap
               /\ (~pool.bypassed /\ FreeOfSize(pool, size) = {}) =>
                    /\ ~HasThrown(pool')
                    /\ pool'.last.from_allocator
                    /\ pool'.free = pool.free]_vars

\* allocateMemory has just returned a block taken from the free map,
\* while a block of the other pooled size stays in the free map.
PooledBlocksReusedWitness ==
  /\ pool.last.op = "allocateMemory"
  /\ IsPooled(pool.last.size)
  /\ ~pool.bypassed
  /\ ~HasThrown(pool)
  /\ ~pool.last.from_allocator
  /\ pool.nb_cached = 1
  /\ pool.last.returned \in DOMAIN pool.allocated
  /\ \E size \in PooledSizes \ {pool.last.size} : FreeOfSize(pool, size) # {}

\* The pointer is in the allocated map with the size given.
AllocatedWith(ptr, size) == ptr \in DOMAIN pool.allocated /\ pool.allocated[ptr] = size

\* C37: freeMemory with a size not larger than the threshold, of a
\* pointer that is not in the allocated map (never allocated, or freed
\* already) or that was allocated with another size, raises a fatal
\* error and leaves the allocated map, the free map, total_allocated
\* and total_free as they were; the free of an allocated pointer with
\* its size raises none.
WrongFreeIsFatal ==
  [][PoolCall("freeMemory") /\ IsPooled(pool'.last.size) =>
       IF AllocatedWith(pool'.last.ptr, pool'.last.size)
       THEN ~HasThrown(pool')
       ELSE /\ pool'.last.fatal = IF pool'.last.ptr \in DOMAIN pool.allocated
                                  THEN "Incoherent size" ELSE "not in the allocated map"
            /\ pool'.allocated = pool.allocated
            /\ pool'.free = pool.free
            /\ pool'.total_allocated = pool.total_allocated
            /\ pool'.total_free = pool.total_free]_vars

\* A block was freed a second time while another block is allocated: the
\* call threw and the block is once in the free map.
WrongFreeIsFatalWitness ==
  /\ pool.last.op = "freeMemory"
  /\ IsPooled(pool.last.size)
  /\ pool.last.fatal = "not in the allocated map"
  /\ pool.free[pool.last.size][pool.last.ptr] = 1
  /\ pool.total_free = pool.last.size
  /\ pool.allocated # EmptyPool.allocated
  /\ pool.total_allocated > 0
  /\ ~pool.bypassed
====
